---- MODULE Spec2Model ----
(***************************************************************************)
(* metaprog: the build pipeline of MetaprogFunctionBuilder (metaprog.ts),  *)
(* the FileSystemCacheHandler store (cache.ts) and retry (utils.ts).       *)
(*                                                                         *)
(* A generated source text is modelled by what it decides: the set of test *)
(* callbacks the function it exports satisfies, and whether the Generator  *)
(* wrapped it in a ``` fence.  An artifact id is the number of the nanoid()*)
(* call that produced it, so ids are never reused.                         *)
(***************************************************************************)
EXTENDS Integers, Sequences, FiniteSets, TLC

\* ------------------------------------------------------------- bounds
MaxIds == 4          \* nanoid() calls explored
MaxTests == 2        \* length of a builder's testCases list
MaxRetries == 4      \* largest `retries` option handed to retry
MaxLen == 7          \* length of a Generator response text, in symbols

\* ---------------------------------------------------------- constants
DefaultRetries == 3  \* utils.ts: retries = 3

Descs == {"d1", "d2"}
Builders == {1, 2}
\* The test callbacks a caller declares.  Callback 1 reports a wrong
\* function by returning false, callback 2 by throwing.
TestIds == {1, 2}
\* The builders whose caller declares tests; the others build without any.
Testers == {1}
NullId == 0
Ids == 1..MaxIds

\* Source texts: passes = the callbacks the exported function satisfies,
\* loads = whether import() of the file succeeds.
Codes == [passes : SUBSET TestIds, fenced : {FALSE}, loads : {TRUE}]
Responses == [passes : SUBSET TestIds, fenced : BOOLEAN, loads : {TRUE}]
\* Generator texts that do not compile: import() of the file rejects.
BrokenResponses == [passes : {{}}, fenced : BOOLEAN, loads : {FALSE}]

NoErr == [kind |-> "none", test |-> 0, id |-> NullId]
NoCode == [passes |-> {}, fenced |-> FALSE, loads |-> TRUE]
\* late: a test case was declared between the build() before and this one.
NoOutcome == [status |-> "none", id |-> NullId, callable |-> NoCode, err |-> NoErr,
              miss |-> FALSE, ntests |-> 0, late |-> FALSE]
NoCall == [op |-> "none", description |-> "none", oldId |-> NullId, ret |-> NullId,
           error |-> "none"]

\* A store call in flight: the await it is suspended at (phase), the id it
\* allocated, and the list it will write to the cache file.
NoPending == [op |-> "none", phase |-> "none", id |-> NullId, oldId |-> NullId,
              functionCode |-> NoCode, description |-> "none", cache |-> <<>>]

\* No function has been called on its own.
NoApp == [op |-> "none"]

VARIABLES
  index,        \* the cache file: a list of [id, description] records
  bodies,       \* the generated directory: id -> source text
  created,      \* created[i]: the description the i-th nanoid() was allocated for
  lastCall,     \* the last completed store call, with the error it threw
  lastId,       \* per description: id returned by the last create/replace since clearCache
  descr,        \* builder -> its description
  app,          \* the call of a function taken on its own, with what it settled to
  pending,      \* caller -> its store call in flight, suspended at an await
  testCases,    \* builder -> its declared test callbacks, in declaration order
  pc,           \* builder -> where its build() is suspended
  functionCode, \* build(): the post-processed Generator text awaiting the store
  createdFunctionId,  \* build(): the id writeFunction returned
  functionId,   \* runTest(): the id under test (reassigned by beforeRetry)
  ti,           \* runAllTests(): position in testCases
  retries,      \* retry(): the remaining budget
  error,        \* retry(): the caught error handed to beforeRetry
  existingFunctionCode, \* fixFunction(): what fetchCode returned
  functionCache,        \* fixFunction(): the id loadFunctionCache returned
  outcome,      \* builder -> how its last build() settled
  genCalls,     \* description -> texts the Generator returned since clearCache
  synthTotal,   \* description -> texts Generator.synthesize returned since clearCache
  repairCalls,  \* builder -> Generator.repair calls of its current build()
  evalCount,    \* builder -> test evaluations of its current build()
  synthCalls,   \* builder -> Generator.synthesize calls of its current build()
  storeWrites   \* description -> writeFunction/replaceFunction calls since clearCache

storeVars == <<index, bodies, created, lastCall, lastId, storeWrites>>
localVars == <<functionCode, createdFunctionId, functionId, ti, retries, error,
               existingFunctionCode, functionCache>>
ghostVars == <<genCalls, synthTotal, repairCalls, evalCount, synthCalls>>
vars == <<index, bodies, created, lastCall, lastId, storeWrites, descr, app, pending, testCases, pc,
          functionCode, createdFunctionId, functionId, ti, retries, error,
          existingFunctionCode, functionCache, outcome,
          genCalls, synthTotal, repairCalls, evalCount, synthCalls>>

\* ---------------------------------------------------------------- store
\* The cache file exists once a write stored a list in it; every stored
\* list has an entry, so the empty index is the missing file (the state
\* before the first write and after clearCache), where fs.readFile rejects.
readFileRejects == index = <<>>

\* loadCache: the parsed cache file; its catch turns a rejected read into [].
loadCache == IF readFileRejects THEN <<>> ELSE index

\* Array.prototype.find on description: position of the first match, 0 if none.
FindPos(cache, description) ==
  IF \E i \in 1..Len(cache) : cache[i].description = description
  THEN CHOOSE i \in 1..Len(cache) :
         /\ cache[i].description = description
         /\ \A j \in 1..(i - 1) : cache[j].description # description
  ELSE 0

\* Mutants of checkCache: a lookup that never finds an entry, and one that
\* takes the first entry whatever its description.
checkCacheNever(functionDescription) == NullId

checkCacheFirst(functionDescription) ==
  IF Len(loadCache) = 0 THEN NullId ELSE loadCache[1].id

checkCache(functionDescription) ==
  LET p == FindPos(loadCache, functionDescription)
  IN IF p = 0 THEN NullId ELSE loadCache[p].id

loadFunctionCache(description) ==
  LET p == FindPos(loadCache, description)
  IN IF p = 0 THEN NullId ELSE loadCache[p].id

nanoid == Len(created) + 1

HasBody(id) == id \in DOMAIN bodies

\* loadFunction(id): import() resolves when the file exists and compiles.
loadFunctionResolves(id) == HasBody(id) /\ bodies[id].loads

\* fetchCode throws 'Function not found in cache' when the index has no entry
\* for the description (and readFile rejects when the body file is missing).
fetchCodeFails(description) ==
  \/ checkCache(description) = NullId
  \/ ~HasBody(checkCache(description))

fetchCode(description) == bodies[checkCache(description)]

\* Mutant of clearCache: the generated directory left in place.
clearCacheKeepsBodies ==
  /\ index' = <<>>
  /\ lastCall' = [NoCall EXCEPT !.op = "clear"]
  /\ lastId' = [d \in Descs |-> NullId]
  /\ storeWrites' = [d \in Descs |-> 0]
  /\ UNCHANGED <<bodies, created>>

\* clearCache: fs.rm of the cache file and of the generated directory.
clearCache ==
  /\ index' = <<>>
  /\ bodies' = <<>>
  /\ lastCall' = [NoCall EXCEPT !.op = "clear"]
  /\ lastId' = [d \in Descs |-> NullId]
  /\ storeWrites' = [d \in Descs |-> 0]
  /\ UNCHANGED created

\* Mutant of PutBody: the body file never written.
PutBodyLost(files, id, functionCode_) == files

PutBody(files, id, functionCode_) ==
  [i \in (DOMAIN files) \cup {id} |-> IF i = id THEN functionCode_ ELSE files[i]]

\* Mutant of writeFunctionIndex: the cache file overwritten with the new
\* entry alone.
writeFunctionIndexAlone(cache, id, description) ==
  <<[id |-> id, description |-> description]>>

writeFunctionIndex(cache, id, description) ==
  Append(cache, [id |-> id, description |-> description])

\* Mutant of replaceFunctionIndex: the new entry never pushed.
replaceFunctionIndexNoPush(cache, id, newId, description) ==
  SelectSeq(cache, LAMBDA item : item.id # id)

\* Mutants of replaceFunctionIndex: the filter forgotten, and inverted.
replaceFunctionIndexKeep(cache, id, newId, description) ==
  Append(cache, [id |-> newId, description |-> description])

replaceFunctionIndexInverted(cache, id, newId, description) ==
  Append(SelectSeq(cache, LAMBDA item : item.id = id),
         [id |-> newId, description |-> description])

replaceFunctionIndex(cache, id, newId, description) ==
  Append(SelectSeq(cache, LAMBDA item : item.id # id),
         [id |-> newId, description |-> description])

\* writeFunction(functionCode, description): the optional third argument is
\* left to its default, id = nanoid(), as every caller in metaprog.ts does
writeFunction(functionCode_, description) ==
  /\ nanoid \in Ids
  /\ bodies' = PutBody(bodies, nanoid, functionCode_)
  /\ index' = writeFunctionIndex(loadCache, nanoid, description)
  /\ created' = Append(created, description)
  /\ lastCall' = [op |-> "write", description |-> description,
                  oldId |-> NullId, ret |-> nanoid, error |-> "none"]
  /\ lastId' = [lastId EXCEPT ![description] = nanoid]
  /\ storeWrites' = [storeWrites EXCEPT ![description] = @ + 1]

replaceFunction(id, functionCode_, description) ==
  /\ nanoid \in Ids
  /\ index' = replaceFunctionIndex(loadCache, id, nanoid, description)
  /\ bodies' = PutBody(bodies, nanoid, functionCode_)
  /\ created' = Append(created, description)
  /\ lastCall' = [op |-> "replace", description |-> description,
                  oldId |-> id, ret |-> nanoid, error |-> "none"]
  /\ lastId' = [lastId EXCEPT ![description] = nanoid]
  /\ storeWrites' = [storeWrites EXCEPT ![description] = @ + 1]

\* ------------------------------------------------------------- pipeline
\* What testCallback(functionUnderTest) evaluates to.
CallbackResult(code, t) ==
  IF t \in code.passes THEN "true"
  ELSE IF t = 1 THEN "false" ELSE "throw"

\* The error the retried function of runTest throws for artifact id and
\* callback t, NoErr when it returns functionId.
TestError(id, t) ==
  IF ~loadFunctionResolves(id) THEN [kind |-> "LoadError", test |-> t, id |-> id]
  ELSE LET result == CallbackResult(bodies[id], t)
       IN IF result = "throw" THEN [kind |-> "Thrown", test |-> t, id |-> id]
          ELSE IF result = "false" THEN [kind |-> "TestFailed", test |-> t, id |-> id]
          ELSE NoErr

postProcessFunctionCode(response) == [response EXCEPT !.fenced = FALSE]

\* Mutants of retryAgain: no second round at all, and one round too many.
retryAgainNever(n) == FALSE

retryAgainExtra(n) == n > 0

\* Mutant of retryAgain: the budget taken as spent one round early.
retryAgainEarly(n) == n > 2

\* Mutant of retryAgain: a budget that is never spent.
retryAgainAlways(n) == TRUE

\* retry's catch block: another round is due while retries > 1.
retryAgain(n) == n > 1

\* Mutant of retryThrows: the error of the attempt before.
retryThrowsPrevious(caught, previous) == previous

\* The error retry rethrows once the budget is spent: the one just caught.
retryThrows(caught, previous) == caught

NoLocals(b) ==
  /\ functionCode' = [functionCode EXCEPT ![b] = NoCode]
  /\ createdFunctionId' = [createdFunctionId EXCEPT ![b] = NullId]
  /\ functionId' = [functionId EXCEPT ![b] = NullId]
  /\ ti' = [ti EXCEPT ![b] = 0]
  /\ retries' = [retries EXCEPT ![b] = 0]
  /\ error' = [error EXCEPT ![b] = NoErr]
  /\ existingFunctionCode' = [existingFunctionCode EXCEPT ![b] = NoCode]
  /\ functionCache' = [functionCache EXCEPT ![b] = NullId]

Resolve(b, id, miss) ==
  /\ pc' = [pc EXCEPT ![b] = "idle"]
  /\ outcome' = [outcome EXCEPT ![b] =
       [status |-> "resolved", id |-> id, callable |-> bodies[id], err |-> NoErr,
        miss |-> miss,
        ntests |-> Len(testCases[b]), late |-> outcome[b].late]]
  /\ NoLocals(b)

Reject(b, status, err) ==
  /\ pc' = [pc EXCEPT ![b] = "idle"]
  /\ outcome' = [outcome EXCEPT ![b] =
       [status |-> status, id |-> NullId, callable |-> NoCode, err |-> err, miss |-> TRUE,
        ntests |-> Len(testCases[b]), late |-> outcome[b].late]]
  /\ NoLocals(b)

\* Mutant of test: the callback put at the head of the list.
testUnshift(b, t) ==
  /\ pc[b] = "idle"
  /\ Len(testCases[b]) < MaxTests
  /\ testCases' = [testCases EXCEPT ![b] = <<t>> \o @]
  /\ UNCHANGED <<storeVars, descr, app, pending, pc, localVars, outcome, ghostVars>>

\* builder.test(testCallback): testCases.push
test(b, t) ==
  /\ pc[b] = "idle"
  /\ Len(testCases[b]) < MaxTests
  /\ testCases' = [testCases EXCEPT ![b] = Append(@, t)]
  /\ UNCHANGED <<storeVars, descr, app, pending, pc, localVars, outcome, ghostVars>>

\* A test case was declared after the build() that last returned.
DeclaredSince(b) ==
  outcome[b].status = "resolved" /\ Len(testCases[b]) > outcome[b].ntests

\* Mutant of build: the index trusted only when no test case is declared.
buildTestsFirst(b) ==
  /\ pc[b] = "idle"
  /\ LET cachedFunctionId == checkCache(descr[b])
     IN /\ pc' = [pc EXCEPT ![b] = IF cachedFunctionId # NullId /\ testCases[b] = <<>>
                                       THEN "hit" ELSE "generate"]
        /\ functionId' = [functionId EXCEPT ![b] = cachedFunctionId]
  /\ outcome' = [outcome EXCEPT ![b] = [NoOutcome EXCEPT !.late = DeclaredSince(b)]]
  /\ repairCalls' = [repairCalls EXCEPT ![b] = 0]
  /\ evalCount' = [evalCount EXCEPT ![b] = 0]
  /\ synthCalls' = [synthCalls EXCEPT ![b] = 0]
  /\ UNCHANGED <<storeVars, descr, app, pending, testCases, functionCode, createdFunctionId, ti,
                 retries, error, existingFunctionCode, functionCache, genCalls, synthTotal>>

\* Mutant of build: the index not consulted, every build() synthesizes.
buildAlwaysGenerates(b) ==
  /\ pc[b] = "idle"
  /\ pc' = [pc EXCEPT ![b] = "generate"]
  /\ functionId' = [functionId EXCEPT ![b] = NullId]
  /\ outcome' = [outcome EXCEPT ![b] = [NoOutcome EXCEPT !.late = DeclaredSince(b)]]
  /\ repairCalls' = [repairCalls EXCEPT ![b] = 0]
  /\ evalCount' = [evalCount EXCEPT ![b] = 0]
  /\ synthCalls' = [synthCalls EXCEPT ![b] = 0]
  /\ UNCHANGED <<storeVars, descr, app, pending, testCases, functionCode, createdFunctionId, ti,
                 retries, error, existingFunctionCode, functionCache, genCalls, synthTotal>>

\* build(): the cache check.
build(b) ==
  /\ pc[b] = "idle"
  /\ LET cachedFunctionId == checkCache(descr[b])
     IN /\ pc' = [pc EXCEPT ![b] = IF cachedFunctionId # NullId THEN "hit" ELSE "generate"]
        /\ functionId' = [functionId EXCEPT ![b] = cachedFunctionId]
  /\ outcome' = [outcome EXCEPT ![b] = [NoOutcome EXCEPT !.late = DeclaredSince(b)]]
  /\ repairCalls' = [repairCalls EXCEPT ![b] = 0]
  /\ evalCount' = [evalCount EXCEPT ![b] = 0]
  /\ synthCalls' = [synthCalls EXCEPT ![b] = 0]
  /\ UNCHANGED <<storeVars, descr, app, pending, testCases, functionCode, createdFunctionId, ti,
                 retries, error, existingFunctionCode, functionCache, genCalls, synthTotal>>

\* Mutant of buildLoadCached: a hit that runs the declared tests first.
buildLoadCachedRetests(b) ==
  /\ pc[b] = "hit"
  /\ IF Len(testCases[b]) >= 1
     THEN /\ pc' = [pc EXCEPT ![b] = "test"]
          /\ createdFunctionId' = [createdFunctionId EXCEPT ![b] = functionId[b]]
          /\ ti' = [ti EXCEPT ![b] = 1]
          /\ retries' = [retries EXCEPT ![b] = DefaultRetries]
          /\ UNCHANGED <<functionCode, functionId, error, existingFunctionCode,
                         functionCache, outcome>>
     ELSE Resolve(b, functionId[b], FALSE)
  /\ UNCHANGED <<storeVars, descr, app, pending, testCases, genCalls, synthTotal, repairCalls, evalCount, synthCalls>>

\* Mutant of buildLoadCached: an indexed artifact that cannot be imported
\* is synthesized anew.
buildLoadCachedRegenerates(b) ==
  /\ pc[b] = "hit"
  /\ IF loadFunctionResolves(functionId[b])
     THEN Resolve(b, functionId[b], FALSE)
     ELSE /\ pc' = [pc EXCEPT ![b] = "generate"]
          /\ UNCHANGED <<localVars, outcome>>
  /\ UNCHANGED <<storeVars, descr, app, pending, testCases, genCalls, synthTotal, repairCalls, evalCount, synthCalls>>

\* build(): return loadFunction(cachedFunctionId)
buildLoadCached(b) ==
  /\ pc[b] = "hit"
  /\ IF loadFunctionResolves(functionId[b])
     THEN Resolve(b, functionId[b], FALSE)
     ELSE Reject(b, "rejected", [kind |-> "LoadError", test |-> 0, id |-> functionId[b]])
  /\ UNCHANGED <<storeVars, descr, app, pending, testCases, genCalls, synthTotal, repairCalls, evalCount, synthCalls>>

\* generateFunction(): chain.invoke, then postProcessFunctionCode
generateFunctionOf(b, response) ==
  /\ pc[b] = "generate"
  /\ nanoid \in Ids
  /\ functionCode' = [functionCode EXCEPT ![b] = postProcessFunctionCode(response)]
  /\ genCalls' = [genCalls EXCEPT ![descr[b]] = @ + 1]
  /\ synthTotal' = [synthTotal EXCEPT ![descr[b]] = @ + 1]
  /\ synthCalls' = [synthCalls EXCEPT ![b] = @ + 1]
  /\ pc' = [pc EXCEPT ![b] = "write"]
  /\ UNCHANGED <<storeVars, descr, app, pending, testCases, createdFunctionId, functionId, ti, retries,
                 error, existingFunctionCode, functionCache, outcome,
                 repairCalls, evalCount>>

generateFunction(b) == \E response \in Responses : generateFunctionOf(b, response)

\* build(): writeFunction, then runAllTests enters its loop (or falls through)
buildWriteFunction(b) ==
  /\ pc[b] = "write"
  /\ writeFunction(functionCode[b], descr[b])
  /\ createdFunctionId' = [createdFunctionId EXCEPT ![b] = nanoid]
  /\ functionId' = [functionId EXCEPT ![b] = nanoid]
  /\ ti' = [ti EXCEPT ![b] = 1]
  /\ retries' = [retries EXCEPT ![b] = DefaultRetries]
  /\ pc' = [pc EXCEPT ![b] = IF Len(testCases[b]) >= 1 THEN "test" ELSE "load"]
  /\ UNCHANGED <<descr, app, pending, testCases, functionCode, error, existingFunctionCode,
                 functionCache, outcome, ghostVars>>

\* Mutant of runTestReturns: the id runTest was first called with.
runTestReturnsCreated(b) == createdFunctionId[b]

\* runTest(): what the retried function returns when the callback passes
\* (`return functionId`, the closure variable beforeRetry reassigns);
\* runAllTests takes it as currentFunctionId for the next test case.
runTestReturns(b) == functionId[b]

\* Mutant of runTest: one retry budget for the whole test loop, the next
\* test case going on with what the one before left.
runTestSharedBudget(b) ==
  /\ pc[b] = "test"
  /\ LET e == TestError(functionId[b], testCases[b][ti[b]])
     IN /\ evalCount' = [evalCount EXCEPT ![b] = @ + 1]
        /\ IF e = NoErr
           THEN /\ functionId' = [functionId EXCEPT ![b] = runTestReturns(b)]
                /\ ti' = [ti EXCEPT ![b] = @ + 1]
                /\ pc' = [pc EXCEPT ![b] = IF ti[b] < Len(testCases[b]) THEN "test" ELSE "load"]
                /\ UNCHANGED <<retries, error, outcome, functionCode, createdFunctionId,
                               existingFunctionCode, functionCache>>
           ELSE IF retryAgain(retries[b])
                THEN /\ error' = [error EXCEPT ![b] = e]
                     /\ pc' = [pc EXCEPT ![b] = "fixFetch"]
                     /\ UNCHANGED <<ti, retries, outcome, functionCode,
                                    createdFunctionId, functionId,
                                    existingFunctionCode, functionCache>>
                ELSE Reject(b, "exhausted", retryThrows(e, error[b]))
  /\ UNCHANGED <<storeVars, descr, app, pending, testCases, genCalls, synthTotal, repairCalls, synthCalls>>

\* runTest(): one invocation of the retried function, and retry's catch
runTest(b) ==
  /\ pc[b] = "test"
  /\ LET e == TestError(functionId[b], testCases[b][ti[b]])
     IN /\ evalCount' = [evalCount EXCEPT ![b] = @ + 1]
        /\ IF e = NoErr
           THEN /\ functionId' = [functionId EXCEPT ![b] = runTestReturns(b)]
                /\ ti' = [ti EXCEPT ![b] = @ + 1]
                /\ retries' = [retries EXCEPT ![b] = DefaultRetries]
                /\ pc' = [pc EXCEPT ![b] = IF ti[b] < Len(testCases[b]) THEN "test" ELSE "load"]
                /\ UNCHANGED <<error, outcome, functionCode, createdFunctionId,
                               existingFunctionCode, functionCache>>
           ELSE IF retryAgain(retries[b])
                THEN /\ error' = [error EXCEPT ![b] = e]
                     /\ pc' = [pc EXCEPT ![b] = "fixFetch"]
                     /\ UNCHANGED <<ti, retries, outcome, functionCode,
                                    createdFunctionId, functionId,
                                    existingFunctionCode, functionCache>>
                ELSE Reject(b, "exhausted", retryThrows(e, error[b]))
  /\ UNCHANGED <<storeVars, descr, app, pending, testCases, genCalls, synthTotal, repairCalls, synthCalls>>

\* Mutant of fixFunctionFetchCode: the body build() first wrote is read,
\* not the one the index names now.
fixFunctionFetchCreated(b) ==
  /\ pc[b] = "fixFetch"
  /\ existingFunctionCode' = [existingFunctionCode EXCEPT ![b] = bodies[createdFunctionId[b]]]
  /\ pc' = [pc EXCEPT ![b] = "fixInvoke"]
  /\ UNCHANGED <<functionCode, createdFunctionId, functionId, ti, retries, error,
                 functionCache, outcome>>
  /\ UNCHANGED <<storeVars, descr, app, pending, testCases, genCalls, synthTotal, repairCalls, evalCount, synthCalls>>

\* fixFunction(): existingFunctionCode = await fetchCode(description)
fixFunctionFetchCode(b) ==
  /\ pc[b] = "fixFetch"
  /\ IF fetchCodeFails(descr[b])
     THEN /\ Reject(b, "rejected", [kind |-> "NotFound", test |-> 0, id |-> NullId])
     ELSE /\ existingFunctionCode' = [existingFunctionCode EXCEPT ![b] = fetchCode(descr[b])]
          /\ pc' = [pc EXCEPT ![b] = "fixInvoke"]
          /\ UNCHANGED <<functionCode, createdFunctionId, functionId, ti, retries, error,
                         functionCache, outcome>>
  /\ UNCHANGED <<storeVars, descr, app, pending, testCases, genCalls, synthTotal, repairCalls, evalCount, synthCalls>>

\* fixFunction(): chain.invoke, then postProcessFunctionCode
fixFunctionInvokeOf(b, response) ==
  /\ pc[b] = "fixInvoke"
  /\ nanoid \in Ids
  /\ functionCode' = [functionCode EXCEPT ![b] = postProcessFunctionCode(response)]
  /\ genCalls' = [genCalls EXCEPT ![descr[b]] = @ + 1]
  /\ repairCalls' = [repairCalls EXCEPT ![b] = @ + 1]
  /\ pc' = [pc EXCEPT ![b] = "fixLoadCache"]
  /\ UNCHANGED <<storeVars, descr, app, pending, testCases, createdFunctionId, functionId, ti, retries,
                 error, existingFunctionCode, functionCache, outcome,
                 evalCount, synthCalls, synthTotal>>

fixFunctionInvoke(b) == \E response \in Responses : fixFunctionInvokeOf(b, response)

\* fixFunction(): functionCache = await loadFunctionCache(description)
fixFunctionLoadCache(b) ==
  /\ pc[b] = "fixLoadCache"
  /\ functionCache' = [functionCache EXCEPT ![b] = loadFunctionCache(descr[b])]
  /\ pc' = [pc EXCEPT ![b] = "fixReplace"]
  /\ UNCHANGED <<storeVars, descr, app, pending, testCases, functionCode, createdFunctionId, functionId,
                 ti, retries, error, existingFunctionCode, outcome, ghostVars>>

\* Mutant of fixFunctionReplace: the test loop started over after a repair.
fixFunctionReplaceRestarts(b) ==
  /\ pc[b] = "fixReplace"
  /\ IF functionCache[b] # NullId
     THEN replaceFunction(functionCache[b], functionCode[b], descr[b])
     ELSE writeFunction(functionCode[b], descr[b])
  /\ functionId' = [functionId EXCEPT ![b] = nanoid]
  /\ retries' = [retries EXCEPT ![b] = @ - 1]
  /\ ti' = [ti EXCEPT ![b] = 1]
  /\ pc' = [pc EXCEPT ![b] = "test"]
  /\ UNCHANGED <<descr, app, pending, testCases, functionCode, createdFunctionId, error,
                 existingFunctionCode, functionCache, outcome, ghostVars>>

\* fixFunction(): replaceFunction (writeFunction when there is no entry);
\* beforeRetry assigns functionId; retry recurses with retries - 1
fixFunctionReplace(b) ==
  /\ pc[b] = "fixReplace"
  /\ IF functionCache[b] # NullId
     THEN replaceFunction(functionCache[b], functionCode[b], descr[b])
     ELSE writeFunction(functionCode[b], descr[b])
  /\ functionId' = [functionId EXCEPT ![b] = nanoid]
  /\ retries' = [retries EXCEPT ![b] = @ - 1]
  /\ pc' = [pc EXCEPT ![b] = "test"]
  /\ UNCHANGED <<descr, app, pending, testCases, functionCode, createdFunctionId, ti, error,
                 existingFunctionCode, functionCache, outcome, ghostVars>>

\* The id build() hands to its final loadFunction.
buildReturnId(b) == createdFunctionId[b]

\* build(): return await loadFunction(createdFunctionId)
buildLoadCreated(b) ==
  /\ pc[b] = "load"
  /\ IF loadFunctionResolves(buildReturnId(b))
     THEN Resolve(b, buildReturnId(b), TRUE)
     ELSE Reject(b, "rejected", [kind |-> "LoadError", test |-> 0, id |-> buildReturnId(b)])
  /\ UNCHANGED <<storeVars, descr, app, pending, testCases, genCalls, synthTotal, repairCalls, evalCount, synthCalls>>

\* cacheHandler.clearCache() between builds; what earlier builds returned
\* is forgotten with the store
reset ==
  /\ \A b \in Builders : pc[b] = "idle"
  /\ index # <<>>
  /\ clearCache
  /\ genCalls' = [d \in Descs |-> 0]
  /\ synthTotal' = [d \in Descs |-> 0]
  /\ outcome' = [b \in Builders |-> NoOutcome]
  /\ repairCalls' = [b \in Builders |-> 0]
  /\ evalCount' = [b \in Builders |-> 0]
  /\ synthCalls' = [b \in Builders |-> 0]
  /\ UNCHANGED <<descr, app, pending, testCases, pc, localVars>>

\* ------------------------------------------------ direct store calls
callWriteFunction(functionCode_, description) ==
  /\ writeFunction(functionCode_, description)
  /\ UNCHANGED <<descr, app, pending, testCases, pc, localVars, outcome, ghostVars>>

callReplaceFunction(id, functionCode_, description) ==
  /\ replaceFunction(id, functionCode_, description)
  /\ UNCHANGED <<descr, app, pending, testCases, pc, localVars, outcome, ghostVars>>

callClearCache ==
  /\ lastCall.op # "clear"
  /\ clearCache
  /\ UNCHANGED <<descr, app, pending, testCases, pc, localVars, outcome, ghostVars>>

\* Mutant of callFetchCode: a missing entry read as an empty source.
callFetchCodeEmpty(description) ==
  /\ lastCall' = [NoCall EXCEPT !.op = "fetchCode", !.description = description]
  /\ UNCHANGED <<index, bodies, created, lastId, storeWrites>>
  /\ UNCHANGED <<descr, app, pending, testCases, pc, localVars, outcome, ghostVars>>

\* fetchCode(description) called on the handler: it reads, and throws
\* 'Function not found in cache' without an entry (readFile rejects with
\* ENOENT when the entry's body file is gone).
callFetchCode(description) ==
  /\ lastCall' = [NoCall EXCEPT
       !.op = "fetchCode", !.description = description,
       !.ret = checkCache(description),
       !.error = IF checkCache(description) = NullId THEN "NotFound"
                 ELSE IF fetchCodeFails(description) THEN "ENOENT" ELSE "none"]
  /\ UNCHANGED <<index, bodies, created, lastId, storeWrites>>
  /\ UNCHANGED <<descr, app, pending, testCases, pc, localVars, outcome, ghostVars>>

\* One caller awaiting each build() before the next call.
Sequential(b) == \A o \in Builders \ {b} : pc[o] = "idle"

\* build() called by a caller that awaited every earlier build()
awaitedBuild(b) == Sequential(b) /\ build(b)

Init ==
  /\ index = <<>>
  /\ bodies = <<>>
  /\ created = <<>>
  /\ lastCall = NoCall
  /\ lastId = [d \in Descs |-> NullId]
  /\ descr \in {f \in [Builders -> Descs] : f[1] = "d1"}
  /\ pending = [c \in Builders |-> NoPending]
  /\ testCases = [b \in Builders |-> <<>>]
  /\ pc = [b \in Builders |-> "idle"]
  /\ functionCode = [b \in Builders |-> NoCode]
  /\ createdFunctionId = [b \in Builders |-> NullId]
  /\ functionId = [b \in Builders |-> NullId]
  /\ ti = [b \in Builders |-> 0]
  /\ retries = [b \in Builders |-> 0]
  /\ error = [b \in Builders |-> NoErr]
  /\ existingFunctionCode = [b \in Builders |-> NoCode]
  /\ functionCache = [b \in Builders |-> NullId]
  /\ outcome = [b \in Builders |-> NoOutcome]
  /\ genCalls = [d \in Descs |-> 0]
  /\ synthTotal = [d \in Descs |-> 0]
  /\ app = NoApp
  /\ repairCalls = [b \in Builders |-> 0]
  /\ evalCount = [b \in Builders |-> 0]
  /\ synthCalls = [b \in Builders |-> 0]
  /\ storeWrites = [d \in Descs |-> 0]

Step(b) ==
  \/ buildLoadCached(b)
  \/ generateFunction(b)
  \/ buildWriteFunction(b)
  \/ runTest(b)
  \/ fixFunctionFetchCode(b)
  \/ fixFunctionInvoke(b)
  \/ fixFunctionLoadCache(b)
  \/ fixFunctionReplace(b)
  \/ buildLoadCreated(b)

Next ==
  \/ \E b \in Testers, t \in TestIds : test(b, t)
  \/ \E b \in Builders : awaitedBuild(b)
  \/ \E b \in Builders : Step(b)
  \/ reset

Spec == Init /\ [][Next]_vars

\* The store driven directly through the CacheHandler interface; replace is
\* handed any id the store has returned before, current or stale.
\* Two source texts are enough to tell a body from the one it supersedes.
StoreCodes == {c \in Codes : c.passes \in {{}, TestIds}}

InitStore == Init /\ descr = [b \in Builders |-> "d1"]

NextStore ==
  \/ \E c \in StoreCodes, d \in Descs : callWriteFunction(c, d)
  \/ \E id \in DOMAIN created, c \in StoreCodes, d \in Descs :
       callReplaceFunction(id, c, d)
  \/ callClearCache
  \/ \E d \in Descs : callFetchCode(d)

SpecStore == InitStore /\ [][NextStore]_vars

\* ------------------------------------------------------- retry, alone
\* retry(fn, {beforeRetry, retries}) of utils.ts.  fn is given by what its
\* successive invocations do, "ok" (resolves) or "fail" (rejects); a value
\* or an error is named by the number of the invocation it came from.
FnOutcomes == {"ok", "fail"}
Fns == [1..(MaxRetries + 1) -> FnOutcomes]

\* The options object: retries given or left out (then it defaults to 3).
RetryOpts == [given : {TRUE}, retries : 0..MaxRetries]
               \cup {[given |-> FALSE, retries |-> DefaultRetries]}

\* retry at its k-th invocation of fn with budget n; before lists the
\* invocations whose error beforeRetry has been called with.
RECURSIVE retryRun(_, _, _, _)
retryRun(fn, n, k, before) ==
  IF fn[k] = "ok"
  THEN [status |-> "resolved", from |-> k, invoked |-> k, before |-> before]
  ELSE IF retryAgain(n)
       THEN retryRun(fn, n - 1, k + 1, Append(before, k))
       ELSE [status |-> "rejected", from |-> k, invoked |-> k, before |-> before]

\* Mutant of retry: beforeRetry called once, with no error, ahead of the
\* first invocation.
retryNotifiesFirst(fn, opts) == retryRun(fn, opts.retries, 1, <<0>>)

retry(fn, opts) == retryRun(fn, opts.retries, 1, <<>>)

callRetry(fn, opts) ==
  /\ app' = [op |-> "retry", fn |-> fn, opts |-> opts, result |-> retry(fn, opts)]
  /\ UNCHANGED <<storeVars, descr, pending, testCases, pc, localVars, outcome, ghostVars>>

NextRetry == \E fn \in Fns, opts \in RetryOpts : callRetry(fn, opts)

SpecRetry == InitStore /\ [][NextRetry]_vars

\* ------------------------------------------- postProcessFunctionCode, alone
\* A response text as a sequence of symbols: a backtick ("tick"), the word
\* "typescript", or any other piece of text.
Symbols == {"tick", "typescript", "x"}

Texts == UNION {[1..n -> Symbols] : n \in 0..MaxLen}

Fence == <<"tick", "tick", "tick">>
FenceTypescript == <<"tick", "tick", "tick", "typescript">>

\* String.prototype.replace with a /g pattern and the empty string: every
\* match removed, matches
\* taken leftmost first and not overlapping.
RECURSIVE replace(_, _)
replace(text, pattern) ==
  IF Len(text) < Len(pattern) THEN text
  ELSE IF SubSeq(text, 1, Len(pattern)) = pattern
       THEN replace(SubSeq(text, Len(pattern) + 1, Len(text)), pattern)
       ELSE <<Head(text)>> \o replace(Tail(text), pattern)

\* Mutant of postProcessFunctionCodeText: only the fences that carry the
\* language tag are removed.
postProcessFunctionCodeTagged(functionCode_) == replace(functionCode_, FenceTypescript)

\* postProcessFunctionCode on the text itself
postProcessFunctionCodeText(functionCode_) ==
  replace(replace(functionCode_, FenceTypescript), Fence)

\* text contains three backticks in a row
HasFence(text) ==
  \E i \in 1..(Len(text) - 2) : SubSeq(text, i, i + 2) = Fence

callPostProcess(text) ==
  /\ app' = [op |-> "postProcess", text |-> text,
              result |-> postProcessFunctionCodeText(text),
              again |-> postProcessFunctionCodeText(postProcessFunctionCodeText(text))]
  /\ UNCHANGED <<storeVars, descr, pending, testCases, pc, localVars, outcome, ghostVars>>

\* One response text is post-processed.
NextPost ==
  /\ app = NoApp
  /\ \E text \in Texts : callPostProcess(text)

SpecPost == InitStore /\ [][NextPost]_vars

\* ------------------------------------- MetaprogFunction.test(args, expected)
\* The earlier interface: one test(args, expected) call builds the function,
\* applies it to args and repairs it under retry until it returns expected.
\* What a function applied to args does: return a value or throw.
Values == [type : {"number", "string"}, val : {1, 2}]
Thrown == [type |-> "throws", val |-> 0]
Returns == Values \cup {Thrown}

\* Mutant of StrictEq: == in place of ===, so 1 and "1" compare equal.
LooseEq(a, b) == a.type # "throws" /\ a.val = b.val

\* actualResult !== expected is false and nothing was thrown
StrictEq(a, b) == a.type # "throws" /\ a = b

\* built is what the built function does on args, fixed[j] what the function
\* returned by the j-th fixFunction call does.
MetaprogFunction_test(built, fixed, expected) ==
  IF StrictEq(built, expected)
  THEN [status |-> "resolved", repairs |-> 0]
  ELSE LET fn == [j \in DOMAIN fixed |->
                    IF StrictEq(fixed[j], expected) THEN "ok" ELSE "fail"]
           r == retryRun(fn, DefaultRetries, 1, <<>>)
       IN [status |-> r.status, repairs |-> r.invoked]

callTest(built, fixed, expected) ==
  /\ app = NoApp
  /\ app' = [op |-> "test", built |-> built, fixed |-> fixed, expected |-> expected,
              result |-> MetaprogFunction_test(built, fixed, expected)]
  /\ UNCHANGED <<storeVars, descr, pending, testCases, pc, localVars, outcome, ghostVars>>

\* test() is called once on a fresh MetaprogFunction.
NextTest ==
  /\ app = NoApp
  /\ \E built \in Returns, fixed \in [1..(DefaultRetries + 1) -> Returns], expected \in Values :
       callTest(built, fixed, expected)

SpecTest == InitStore /\ [][NextTest]_vars

\* ------------------------------------------ runTest(functionId, testCallback)
\* What testCallback(functionUnderTest) evaluates to: the callback is typed
\* to return a boolean, but what it returns at run time is any value, or
\* it throws (itself, or the function under test it calls).
False == [type |-> "boolean", val |-> 0]
True == [type |-> "boolean", val |-> 1]
CallbackValues ==
  {False, True, [type |-> "undefined", val |-> 0], [type |-> "null", val |-> 0],
   [type |-> "number", val |-> 0], [type |-> "number", val |-> 1],
   [type |-> "string", val |-> 0]}
CallbackReturns == CallbackValues \cup {Thrown}

\* Mutant of IsFalse: !result in place of result === false, so every falsy
\* value fails the test.
IsFalsy(result) == result.val = 0

\* result === false
IsFalse(result) == result = False

\* One invocation of the function runTest hands to retry: loadFunction
\* rejects, or the callback throws, or it returns false and 'Test Failed.'
\* is thrown; it returns functionId otherwise.
runTestFn(attempt) ==
  IF ~attempt.loaded THEN "fail"
  ELSE IF attempt.result = Thrown THEN "fail"
  ELSE IF IsFalse(attempt.result) THEN "fail"
  ELSE "ok"

Attempts == [loaded : BOOLEAN, result : CallbackReturns]

\* runTest on one test case: attempts[k] is what the k-th invocation meets,
\* the artifact being the one left by the fixFunction call before it; retry
\* runs with its default budget and beforeRetry calls fixFunction.
runTestOf(attempts) ==
  retry([k \in DOMAIN attempts |-> runTestFn(attempts[k])],
        [given |-> FALSE, retries |-> DefaultRetries])

callRunTest(attempts) ==
  /\ app = NoApp
  /\ app' = [op |-> "runTest", attempts |-> attempts, result |-> runTestOf(attempts)]
  /\ UNCHANGED <<storeVars, descr, pending, testCases, pc, localVars, outcome, ghostVars>>

\* runTest is called once for one test case.
NextEval ==
  /\ app = NoApp
  /\ \E attempts \in [1..DefaultRetries -> Attempts] : callRunTest(attempts)

SpecEval == InitStore /\ [][NextEval]_vars

\* ------------------------------------------- store calls, await by await
\* writeFunction and replaceFunction as the event loop runs them: each
\* await of fs.writeFile and of loadCache is a step, so the states between
\* the two file writes of a call are states of the store.  A caller is one
\* of the builders' handlers.
Idle(c) == pending[c].op = "none"

NoPipeline == UNCHANGED <<descr, app, testCases, pc, localVars, outcome, ghostVars>>

\* writeFunction called: id = nanoid(), mkdir; suspended at the body write
beginWriteFunction(c, functionCode_, description) ==
  /\ Idle(c)
  /\ nanoid \in Ids
  /\ pending' = [pending EXCEPT ![c] = [NoPending EXCEPT
       !.op = "write", !.phase = "body", !.id = nanoid,
       !.functionCode = functionCode_, !.description = description]]
  /\ created' = Append(created, description)
  /\ UNCHANGED <<index, bodies, lastCall, lastId, storeWrites>>
  /\ NoPipeline

\* replaceFunction called: suspended at loadCache
beginReplaceFunction(c, id, functionCode_, description) ==
  /\ Idle(c)
  /\ pending' = [pending EXCEPT ![c] = [NoPending EXCEPT
       !.op = "replace", !.phase = "read", !.oldId = id,
       !.functionCode = functionCode_, !.description = description]]
  /\ UNCHANGED storeVars
  /\ NoPipeline

\* await loadCache() resolves: writeFunction pushes its entry onto the list
\* read; replaceFunction filters it, draws newId = nanoid() and pushes
stepLoadCache(c) ==
  /\ pending[c].phase = "read"
  /\ IF pending[c].op = "write"
     THEN /\ pending' = [pending EXCEPT ![c] = [@ EXCEPT
               !.phase = "cache",
               !.cache = writeFunctionIndex(loadCache, pending[c].id,
                                            pending[c].description)]]
          /\ UNCHANGED created
     ELSE /\ nanoid \in Ids
          /\ pending' = [pending EXCEPT ![c] = [@ EXCEPT
               !.phase = "cache", !.id = nanoid,
               !.cache = replaceFunctionIndex(loadCache, pending[c].oldId, nanoid,
                                              pending[c].description)]]
          /\ created' = Append(created, pending[c].description)
  /\ UNCHANGED <<index, bodies, lastCall, lastId, storeWrites>>
  /\ NoPipeline

\* The call returns its id.
Returned(c) ==
  /\ lastCall' = [op |-> pending[c].op, description |-> pending[c].description,
                  oldId |-> pending[c].oldId, ret |-> pending[c].id, error |-> "none"]
  /\ lastId' = [lastId EXCEPT ![pending[c].description] = pending[c].id]
  /\ storeWrites' = [storeWrites EXCEPT ![pending[c].description] = @ + 1]
  /\ pending' = [pending EXCEPT ![c] = NoPending]

\* await fs.writeFile(filePath, functionCode) resolves: writeFunction goes
\* on to loadCache, replaceFunction returns newId
stepWriteBody(c) ==
  /\ pending[c].phase = "body"
  /\ bodies' = PutBody(bodies, pending[c].id, pending[c].functionCode)
  /\ IF pending[c].op = "write"
     THEN /\ pending' = [pending EXCEPT ![c] = [@ EXCEPT !.phase = "read"]]
          /\ UNCHANGED <<lastCall, lastId, storeWrites>>
     ELSE Returned(c)
  /\ UNCHANGED <<index, created>>
  /\ NoPipeline

\* Mutant of stepWriteCache: replaceFunction stores the filtered list first,
\* the new entry being left to a later write.
stepWriteCacheFiltered(c) ==
  /\ pending[c].phase = "cache"
  /\ index' = IF pending[c].op = "write" THEN pending[c].cache
              ELSE SelectSeq(pending[c].cache, LAMBDA item : item.id # pending[c].id)
  /\ IF pending[c].op = "write"
     THEN Returned(c)
     ELSE /\ pending' = [pending EXCEPT ![c] = [@ EXCEPT !.phase = "body"]]
          /\ UNCHANGED <<lastCall, lastId, storeWrites>>
  /\ UNCHANGED <<bodies, created>>
  /\ NoPipeline

\* Mutant of stepWriteCache: the list read again at the write and the
\* caller's entry merged into it.
stepWriteCacheMerged(c) ==
  /\ pending[c].phase = "cache"
  /\ index' = IF pending[c].op = "write"
              THEN writeFunctionIndex(loadCache, pending[c].id, pending[c].description)
              ELSE replaceFunctionIndex(loadCache, pending[c].oldId, pending[c].id,
                                        pending[c].description)
  /\ IF pending[c].op = "write"
     THEN Returned(c)
     ELSE /\ pending' = [pending EXCEPT ![c] = [@ EXCEPT !.phase = "body"]]
          /\ UNCHANGED <<lastCall, lastId, storeWrites>>
  /\ UNCHANGED <<bodies, created>>
  /\ NoPipeline

\* await fs.writeFile(this.cachePath, ...) resolves: writeFunction returns
\* id, replaceFunction goes on to the body write
stepWriteCache(c) ==
  /\ pending[c].phase = "cache"
  /\ index' = pending[c].cache
  /\ IF pending[c].op = "write"
     THEN Returned(c)
     ELSE /\ pending' = [pending EXCEPT ![c] = [@ EXCEPT !.phase = "body"]]
          /\ UNCHANGED <<lastCall, lastId, storeWrites>>
  /\ UNCHANGED <<bodies, created>>
  /\ NoPipeline

\* fs.writeFile rejects: the call rejects with what it has written so far
stepWriteRejects(c) ==
  /\ pending[c].phase \in {"body", "cache"}
  /\ lastCall' = [op |-> pending[c].op, description |-> pending[c].description,
                  oldId |-> pending[c].oldId, ret |-> NullId, error |-> "WriteError"]
  /\ pending' = [pending EXCEPT ![c] = NoPending]
  /\ UNCHANGED <<index, bodies, created, lastId, storeWrites>>
  /\ NoPipeline

\* clearCache between calls
stepClearCache ==
  /\ \A c \in Builders : Idle(c)
  /\ index # <<>>
  /\ clearCache
  /\ UNCHANGED pending
  /\ NoPipeline

\* One handler called at a time: each call is awaited before the next.
Callers == {1}

\* What a body says does not matter to the order of the writes.
StepCodes == {c \in Codes : c.passes = TestIds}

NextSteps ==
  \/ \E c \in Callers, code \in StepCodes, d \in Descs : beginWriteFunction(c, code, d)
  \/ \E c \in Callers, id \in DOMAIN created, code \in StepCodes, d \in Descs :
       beginReplaceFunction(c, id, code, d)
  \/ \E c \in Callers : stepLoadCache(c)
  \/ \E c \in Callers : stepWriteBody(c)
  \/ \E c \in Callers : stepWriteCache(c)
  \/ \E c \in Callers : stepWriteRejects(c)
  \/ stepClearCache

SpecSteps == InitStore /\ [][NextSteps]_vars

\* ------------------------------------------------------ rejected calls
\* The awaited calls of build() can reject: the Generator (chain.invoke),
\* fs.writeFile inside writeFunction, and import() of a text that does not
\* compile.  build() has no try/catch of its own.

\* Mutant of buildThrows: the error dropped, build() resolving with
\* undefined.
buildThrowsSwallowed(b, err) ==
  /\ pc' = [pc EXCEPT ![b] = "idle"]
  /\ outcome' = [outcome EXCEPT ![b] =
       [NoOutcome EXCEPT !.status = "resolved", !.miss = TRUE,
                         !.ntests = Len(testCases[b])]]
  /\ NoLocals(b)

\* An awaited call of build() outside retry rejects: the promise build()
\* returned rejects with that error.
buildThrows(b, err) == Reject(b, "rejected", err)

\* writeFunction with a rejected fs.writeFile: of the body file (nothing is
\* stored) or of the cache file (the body stays, unreferenced).
writeFunctionRejects(functionCode_, description, file) ==
  /\ nanoid \in Ids
  /\ bodies' = IF file = "cache" THEN PutBody(bodies, nanoid, functionCode_) ELSE bodies
  /\ created' = Append(created, description)
  /\ lastCall' = [NoCall EXCEPT !.op = "write", !.description = description,
                                !.error = "WriteError"]
  /\ UNCHANGED <<index, lastId, storeWrites>>

\* Mutant of generateFunctionRejects: an entry with an empty text is stored
\* for the description before the error is passed on.
generateFunctionRejectsStored(b) ==
  /\ pc[b] = "generate"
  /\ writeFunction(NoCode, descr[b])
  /\ buildThrows(b, [kind |-> "GeneratorError", test |-> 0, id |-> NullId])
  /\ synthCalls' = [synthCalls EXCEPT ![b] = @ + 1]
  /\ UNCHANGED <<descr, app, pending, testCases, genCalls, synthTotal, repairCalls, evalCount>>

\* generateFunction(): chain.invoke rejects
generateFunctionRejects(b) ==
  /\ pc[b] = "generate"
  /\ buildThrows(b, [kind |-> "GeneratorError", test |-> 0, id |-> NullId])
  /\ synthCalls' = [synthCalls EXCEPT ![b] = @ + 1]
  /\ UNCHANGED <<storeVars, descr, app, pending, testCases, genCalls, synthTotal, repairCalls, evalCount>>

\* generateFunction(): the Generator answers with a text that does not compile
generateFunctionBroken(b) ==
  \E response \in BrokenResponses : generateFunctionOf(b, response)

\* fixFunction(): the Generator answers with a text that does not compile
fixFunctionInvokeBroken(b) ==
  \E response \in BrokenResponses : fixFunctionInvokeOf(b, response)

\* build(): await writeFunction rejects
buildWriteFunctionRejects(b) ==
  /\ pc[b] = "write"
  /\ \E file \in {"body", "cache"} :
       writeFunctionRejects(functionCode[b], descr[b], file)
  /\ buildThrows(b, [kind |-> "WriteError", test |-> 0, id |-> NullId])
  /\ UNCHANGED <<descr, app, pending, testCases, ghostVars>>

\* builder.test(...) chained before the first build(), as in
\* createMetaprogBuilder(...).test(...).build()
testThenBuild(b, t) == outcome[b].status = "none" /\ test(b, t)

\* One builder, its caller declaring the tests and then awaiting each build().
NextFail ==
  \/ \E b \in Testers, t \in TestIds : testThenBuild(b, t)
  \/ \E b \in Testers : awaitedBuild(b)
  \/ \E b \in Testers : Step(b)
  \/ \E b \in Testers : generateFunctionRejects(b)
  \/ \E b \in Testers : generateFunctionBroken(b)
  \/ \E b \in Testers : buildWriteFunctionRejects(b)
  \/ \E b \in Testers : fixFunctionInvokeBroken(b)

SpecFail == InitStore /\ [][NextFail]_vars

\* ------------------------------------- two handlers on one description
\* Two instances call writeFunction and replaceFunction for "d1" without
\* waiting for each other; their awaits interleave in any order.
NextRace ==
  \/ \E c \in Builders, code \in StepCodes : beginWriteFunction(c, code, "d1")
  \/ \E c \in Builders, id \in DOMAIN created, code \in StepCodes :
       beginReplaceFunction(c, id, code, "d1")
  \/ \E c \in Builders : stepLoadCache(c)
  \/ \E c \in Builders : stepWriteBody(c)
  \/ \E c \in Builders : stepWriteCache(c)

SpecRace == InitStore /\ [][NextRace]_vars

\* ------------------------------------------------ rejected repair steps
\* The awaited calls of fixFunction can reject: fetchCode (fs.readFile),
\* the Generator (chain.invoke) and replaceFunction (fs.writeFile).
\* fixFunction runs as retry's beforeRetry, inside retry's catch block.

\* Mutant of beforeRetryThrows: the error of beforeRetry caught like one of
\* fn, retry going on to the next invocation.
beforeRetryThrowsRetried(b, err) ==
  /\ error' = [error EXCEPT ![b] = err]
  /\ retries' = [retries EXCEPT ![b] = @ - 1]
  /\ pc' = [pc EXCEPT ![b] = "test"]
  /\ UNCHANGED <<functionCode, createdFunctionId, functionId, ti,
                 existingFunctionCode, functionCache, outcome>>

\* await beforeRetry(error) rejects: no try encloses it, so retry, runTest,
\* runAllTests and build() reject with that error
beforeRetryThrows(b, err) == Reject(b, "rejected", err)

\* replaceFunction with a rejected fs.writeFile: of the cache file (nothing
\* is stored) or of the body file (the index already names the new id).
replaceFunctionRejects(id, functionCode_, description, file) ==
  /\ nanoid \in Ids
  /\ index' = IF file = "body"
              THEN replaceFunctionIndex(loadCache, id, nanoid, description)
              ELSE index
  /\ created' = Append(created, description)
  /\ lastCall' = [NoCall EXCEPT !.op = "replace", !.description = description,
                                !.oldId = id, !.error = "WriteError"]
  /\ UNCHANGED <<bodies, lastId, storeWrites>>

\* fixFunction(): await fetchCode rejects
fixFunctionFetchCodeRejects(b) ==
  /\ pc[b] = "fixFetch"
  /\ beforeRetryThrows(b, [kind |-> "ReadError", test |-> 0, id |-> NullId])
  /\ UNCHANGED <<storeVars, descr, app, pending, testCases, ghostVars>>

\* fixFunction(): chain.invoke rejects
fixFunctionInvokeRejects(b) ==
  /\ pc[b] = "fixInvoke"
  /\ beforeRetryThrows(b, [kind |-> "GeneratorError", test |-> 0, id |-> NullId])
  /\ repairCalls' = [repairCalls EXCEPT ![b] = @ + 1]
  /\ UNCHANGED <<storeVars, descr, app, pending, testCases, genCalls, synthTotal,
                 evalCount, synthCalls>>

\* fixFunction(): await replaceFunction (or writeFunction) rejects
fixFunctionReplaceRejects(b) ==
  /\ pc[b] = "fixReplace"
  /\ \E file \in {"body", "cache"} :
       IF functionCache[b] # NullId
       THEN replaceFunctionRejects(functionCache[b], functionCode[b], descr[b], file)
       ELSE writeFunctionRejects(functionCode[b], descr[b], file)
  /\ beforeRetryThrows(b, [kind |-> "WriteError", test |-> 0, id |-> NullId])
  /\ UNCHANGED <<descr, app, pending, testCases, ghostVars>>

\* One builder, its caller declaring the tests and then awaiting each build().
NextFix ==
  \/ \E b \in Testers, t \in TestIds : testThenBuild(b, t)
  \/ \E b \in Testers : awaitedBuild(b)
  \/ \E b \in Testers : Step(b)
  \/ \E b \in Testers : fixFunctionFetchCodeRejects(b)
  \/ \E b \in Testers : fixFunctionInvokeRejects(b)
  \/ \E b \in Testers : fixFunctionReplaceRejects(b)

SpecFix == InitStore /\ [][NextFix]_vars

\* --------------------------------------------- builds that interleave
\* build() of two instances on one store, neither awaiting the other.  The
\* store calls that write run await by await (pending[b] is the call of
\* builder b in flight), so another instance's steps fall between them; a
\* call's return and the continuation of the caller awaiting it are one step.

\* Mutant of buildCallsWriteFunction: the call not awaited, build() goes on
\* to the tests with the id while the writes are pending.
buildCallsWriteFunctionUnawaited(b) ==
  /\ pc[b] = "write"
  /\ Idle(b)
  /\ nanoid \in Ids
  /\ pending' = [pending EXCEPT ![b] = [NoPending EXCEPT
       !.op = "write", !.phase = "body", !.id = nanoid,
       !.functionCode = functionCode[b], !.description = descr[b]]]
  /\ created' = Append(created, descr[b])
  /\ createdFunctionId' = [createdFunctionId EXCEPT ![b] = nanoid]
  /\ functionId' = [functionId EXCEPT ![b] = nanoid]
  /\ pc' = [pc EXCEPT ![b] = "load"]
  /\ UNCHANGED <<index, bodies, lastCall, lastId, storeWrites>>
  /\ UNCHANGED <<descr, app, testCases, functionCode, ti, retries, error,
                 existingFunctionCode, functionCache, outcome, ghostVars>>

\* build(): writeFunction called and awaited
buildCallsWriteFunction(b) ==
  /\ pc[b] = "write"
  /\ Idle(b)
  /\ nanoid \in Ids
  /\ pending' = [pending EXCEPT ![b] = [NoPending EXCEPT
       !.op = "write", !.phase = "body", !.id = nanoid,
       !.functionCode = functionCode[b], !.description = descr[b]]]
  /\ created' = Append(created, descr[b])
  /\ pc' = [pc EXCEPT ![b] = "writing"]
  /\ UNCHANGED <<index, bodies, lastCall, lastId, storeWrites>>
  /\ UNCHANGED <<descr, app, testCases, localVars, outcome, ghostVars>>

\* an await inside the pending call resolves and the call goes on
storeStep(b) ==
  /\ pc[b] \in {"writing", "replacing"}
  /\ \/ stepLoadCache(b)
     \/ pending[b].op = "write" /\ stepWriteBody(b)
     \/ pending[b].op = "replace" /\ stepWriteCache(b)

\* writeFunction's index write resolves, it returns id, and build() goes on:
\* runAllTests enters its loop (or falls through)
buildWriteFunctionReturns(b) ==
  /\ pc[b] = "writing"
  /\ pending[b].phase = "cache"
  /\ index' = pending[b].cache
  /\ Returned(b)
  /\ createdFunctionId' = [createdFunctionId EXCEPT ![b] = pending[b].id]
  /\ functionId' = [functionId EXCEPT ![b] = pending[b].id]
  /\ ti' = [ti EXCEPT ![b] = 1]
  /\ retries' = [retries EXCEPT ![b] = DefaultRetries]
  /\ pc' = [pc EXCEPT ![b] = IF Len(testCases[b]) >= 1 THEN "test" ELSE "load"]
  /\ UNCHANGED <<bodies, created, descr, app, testCases, functionCode, error,
                 existingFunctionCode, functionCache, outcome, ghostVars>>

\* fixFunction(): replaceFunction (writeFunction when there is no entry)
\* called and awaited
fixFunctionCallsReplace(b) ==
  /\ pc[b] = "fixReplace"
  /\ Idle(b)
  /\ IF functionCache[b] # NullId
     THEN /\ pending' = [pending EXCEPT ![b] = [NoPending EXCEPT
               !.op = "replace", !.phase = "read", !.oldId = functionCache[b],
               !.functionCode = functionCode[b], !.description = descr[b]]]
          /\ UNCHANGED created
     ELSE /\ nanoid \in Ids
          /\ pending' = [pending EXCEPT ![b] = [NoPending EXCEPT
               !.op = "write", !.phase = "body", !.id = nanoid,
               !.functionCode = functionCode[b], !.description = descr[b]]]
          /\ created' = Append(created, descr[b])
  /\ pc' = [pc EXCEPT ![b] = "replacing"]
  /\ UNCHANGED <<index, bodies, lastCall, lastId, storeWrites>>
  /\ UNCHANGED <<descr, app, testCases, localVars, outcome, ghostVars>>

\* the call's last write resolves (the body for replaceFunction, the index
\* for writeFunction), it returns the new id; beforeRetry assigns
\* functionId and retry recurses with retries - 1
fixFunctionReplaceReturns(b) ==
  /\ pc[b] = "replacing"
  /\ \/ /\ pending[b].op = "replace"
        /\ pending[b].phase = "body"
        /\ bodies' = PutBody(bodies, pending[b].id, pending[b].functionCode)
        /\ UNCHANGED index
     \/ /\ pending[b].op = "write"
        /\ pending[b].phase = "cache"
        /\ index' = pending[b].cache
        /\ UNCHANGED bodies
  /\ Returned(b)
  /\ functionId' = [functionId EXCEPT ![b] = pending[b].id]
  /\ retries' = [retries EXCEPT ![b] = @ - 1]
  /\ pc' = [pc EXCEPT ![b] = "test"]
  /\ UNCHANGED <<created, descr, app, testCases, functionCode, createdFunctionId, ti, error,
                 existingFunctionCode, functionCache, outcome, ghostVars>>

StepConc(b) ==
  \/ buildLoadCached(b)
  \/ generateFunction(b)
  \/ buildCallsWriteFunction(b)
  \/ storeStep(b)
  \/ buildWriteFunctionReturns(b)
  \/ runTest(b)
  \/ fixFunctionFetchCode(b)
  \/ fixFunctionInvoke(b)
  \/ fixFunctionLoadCache(b)
  \/ fixFunctionCallsReplace(b)
  \/ fixFunctionReplaceReturns(b)
  \/ buildLoadCreated(b)

\* One test case is declared, before the instance's first build().
testOnce(b, t) == testCases[b] = <<>> /\ testThenBuild(b, t)

NextConc ==
  \/ \E b \in Testers, t \in TestIds : testOnce(b, t)
  \/ \E b \in Builders : build(b)
  \/ \E b \in Builders : StepConc(b)

SpecConc == InitStore /\ [][NextConc]_vars

\* ------------------------------ builds of two descriptions that interleave
\* One instance builds "d1", the other "d2", on one store, without tests
\* and without waiting for each other.
InitTwo == Init /\ descr = [b \in Builders |-> IF b = 1 THEN "d1" ELSE "d2"]

StepTwo(b) ==
  \/ buildLoadCached(b)
  \/ generateFunction(b)
  \/ buildCallsWriteFunction(b)
  \/ storeStep(b)
  \/ buildWriteFunctionReturns(b)
  \/ buildLoadCreated(b)

NextTwo ==
  \/ \E b \in Builders : build(b)
  \/ \E b \in Builders : StepTwo(b)

SpecTwo == InitTwo /\ [][NextTwo]_vars

\* ------------------------------------------------- builds run to their end
\* The ids a build() can ask nanoid for: one for the synthesized text and
\* one for every repair its test cases can trigger.
IdsNeeded(b) ==
  IF checkCache(descr[b]) # NullId THEN 0
  ELSE 1 + (DefaultRetries - 1) * Len(testCases[b])

\* build() called while the ids explored suffice for it
buildWithinIds(b) ==
  /\ Len(created) + IdsNeeded(b) <= MaxIds
  /\ awaitedBuild(b)

NextLive ==
  \/ \E b \in Testers, t \in TestIds : testThenBuild(b, t)
  \/ \E b \in Builders : buildWithinIds(b)
  \/ \E b \in Builders : Step(b)

\* Every Generator, store and loader call returns and its continuation is
\* run: a build() that can take its next step eventually takes it.
FairLive == \A b \in Builders : WF_vars(Step(b))

SpecLive == InitStore /\ [][NextLive]_vars /\ FairLive

\* ---------------------------------------------------------------- claims
Passes(code, t) == CallbackResult(code, t) \notin {"false", "throw"}

\* C1: whenever build() resolves on a cache miss, the callable it returns
\* passes every declared test case.
C1_ReturnedCallablePassesAllTests ==
  \A b \in Builders :
    (outcome[b].status = "resolved" /\ outcome[b].miss)
      => \A i \in 1..outcome[b].ntests : Passes(outcome[b].callable, testCases[b][i])

\* C2: when build() resolves after one or more repairs, the callable it
\* returns is loaded from the id the last replace returned, the one indexed
\* for the description.
C2_ReturnsRepairedArtifact ==
  [][\A b \in Builders :
       (pc[b] = "load" /\ repairCalls[b] >= 1 /\ outcome'[b].status = "resolved")
         => /\ outcome'[b].id = lastId[descr[b]]
            /\ outcome'[b].id = checkCache(descr[b])]_vars

\* C3: with one declared test and repairs that never pass, build() fails
\* after exactly `retries` (3) Generator.repair calls.
C3_ExhaustedAfterRetriesRepairs ==
  \A b \in Builders :
    (outcome[b].status = "exhausted" /\ outcome[b].ntests = 1)
      => repairCalls[b] = DefaultRetries

\* C4: sequential build() calls with the same description and no declared
\* tests make one Generator call and one store write in total; every call
\* after the first is a cache hit.
C4_OneGeneratorCall ==
  \A d \in Descs :
    (\A b \in Builders : descr[b] = d => testCases[b] = <<>>)
      => /\ genCalls[d] <= 1
         /\ storeWrites[d] <= 1
         /\ \A b \in Builders :
              (descr[b] = d /\ outcome[b].status = "resolved")
                => /\ genCalls[d] = 1
                   /\ storeWrites[d] = 1
                   /\ outcome[b].id = lastId[d]

C4_Witness ==
  \E b \in Builders :
    /\ \A o \in Builders : descr[o] = descr[b] => testCases[o] = <<>>
    /\ outcome[b].status = "resolved"
    /\ ~outcome[b].miss
    /\ genCalls[descr[b]] = 1

\* C5: once a build() has repaired the artifact, a later build() for the
\* description returns the callable of the id the last replace returned,
\* with no Generator call and no test evaluation.
C5_RebuildReturnsRepaired ==
  \A b \in Builders :
    (outcome[b].status = "resolved" /\ ~outcome[b].miss /\ storeWrites[descr[b]] >= 2)
      => /\ outcome[b].id = lastId[descr[b]]
         /\ outcome[b].callable = bodies[lastId[descr[b]]]
         /\ synthCalls[b] = 0
         /\ repairCalls[b] = 0
         /\ evalCount[b] = 0

C5_Witness ==
  \E b \in Builders :
    /\ outcome[b].status = "resolved"
    /\ ~outcome[b].miss
    /\ storeWrites[descr[b]] = 2
    /\ outcome[b].ntests >= 1
    /\ lastCall.op = "replace"
    /\ outcome[b].id = lastCall.ret
    /\ \A i \in 1..outcome[b].ntests : Passes(outcome[b].callable, testCases[b][i])

\* C6: a build() that finds an index entry goes straight to loading it and
\* resolves with that id; while it does, no test is evaluated, the
\* Generator is not called and the store is not written, whatever tests
\* are declared.
C6_HitFrame ==
  [][\A b \in Builders :
       /\ (pc[b] = "idle" /\ pc'[b] # "idle" /\ checkCache(descr[b]) # NullId)
            => pc'[b] = "hit"
       /\ (pc[b] = "hit" /\ pc'[b] # "hit")
            => /\ outcome'[b].status = "resolved"
               /\ outcome'[b].id = checkCache(descr[b])
               /\ UNCHANGED <<index, bodies, created, storeWrites, genCalls>>
               /\ evalCount'[b] = 0
               /\ synthCalls'[b] = 0
               /\ repairCalls'[b] = 0]_vars

C6_Witness ==
  \E b \in Builders :
    /\ outcome[b].status = "resolved"
    /\ ~outcome[b].miss
    /\ outcome[b].ntests >= 1
    /\ ~Passes(outcome[b].callable, testCases[b][1])
    /\ evalCount[b] = 0

\* C7: when an earlier test was repaired, the first evaluation of the next
\* declared test runs against the id the last replace returned, not the
\* created one.
C7_NextTestUsesRepaired ==
  \A b \in Builders :
    (pc[b] = "test" /\ ti[b] >= 2 /\ retries[b] = DefaultRetries /\ repairCalls[b] >= 1)
      => /\ lastCall.op = "replace"
         /\ functionId[b] = lastCall.ret
         /\ functionId[b] = lastId[descr[b]]
         /\ functionId[b] # createdFunctionId[b]

C7_Witness ==
  \E b \in Builders :
    /\ pc[b] = "test"
    /\ ti[b] = 2
    /\ retries[b] = DefaultRetries
    /\ repairCalls[b] >= 1
    /\ functionId[b] = lastCall.ret

CountFor(cache, description) ==
  Cardinality({i \in 1..Len(cache) : cache[i].description = description})

lookupIn(cache, description) ==
  LET p == FindPos(cache, description)
  IN IF p = 0 THEN NullId ELSE cache[p].id

\* C8 as stated: after replace(oldId, text, d), lookup(d) does not return
\* oldId and the index holds exactly one entry for d.
C8_ReplaceLeavesOneEntry ==
  lastCall.op = "replace"
    => /\ checkCache(lastCall.description) # lastCall.oldId
       /\ CountFor(index, lastCall.description) = 1

\* C8 amended: after replace(oldId, text, d), lookup(d) does not return
\* oldId and no entry references oldId; the index holds exactly one entry
\* for d when, before the call, no entry for d had an id other than oldId.
C8_ReplaceAmended ==
  [][(lastCall'.op = "replace" /\ lastCall'.ret # lastCall.ret)
       => LET d == lastCall'.description
              old == lastCall'.oldId
          IN /\ lookupIn(index', d) # old
             /\ lookupIn(index', d) # NullId
             /\ \A i \in 1..Len(index') : index'[i].id # old
             /\ (\A i \in 1..Len(index) : index[i].description = d => index[i].id = old)
                  => CountFor(index', d) = 1]_vars

C8_Witness ==
  /\ lastCall.op = "replace"
  /\ lastCall.oldId \in DOMAIN bodies
  /\ created[lastCall.oldId] = lastCall.description
  /\ CountFor(index, lastCall.description) = 1
  /\ Len(index) >= 2

\* C9: builders with the same description and no tests resolve to the same
\* id; builders with different descriptions resolve to different ids; and
\* lookup(d) returns only an id allocated for d.
C9_KeyFidelity ==
  /\ \A b1, b2 \in Builders :
       (/\ outcome[b1].status = "resolved" /\ outcome[b2].status = "resolved"
        /\ outcome[b1].ntests = 0 /\ outcome[b2].ntests = 0
        /\ descr[b1] = descr[b2])
         => outcome[b1].id = outcome[b2].id
  /\ \A b1, b2 \in Builders :
       (/\ outcome[b1].status = "resolved" /\ outcome[b2].status = "resolved"
        /\ descr[b1] # descr[b2])
         => outcome[b1].id # outcome[b2].id
  /\ \A d \in Descs :
       checkCache(d) # NullId => created[checkCache(d)] = d

C9_Witness ==
  /\ outcome[1].status = "resolved" /\ outcome[2].status = "resolved"
  /\ outcome[1].ntests = 0 /\ outcome[2].ntests = 0
  /\ descr[1] = descr[2]
  /\ outcome[1].id = outcome[2].id
  /\ outcome[1].miss # outcome[2].miss

\* C10: when the retry budget of a test case is spent, build() fails with
\* the error of the last test evaluation: the one made on the artifact
\* the last replace returned.
C10_SurfacesLastError ==
  \A b \in Builders :
    outcome[b].status = "exhausted"
      => /\ outcome[b].err.kind \in {"TestFailed", "Thrown", "LoadError"}
         /\ outcome[b].err.id = lastId[descr[b]]
         /\ outcome[b].err = TestError(outcome[b].err.id, outcome[b].err.test)

C10_Witness ==
  \E b \in Builders :
    /\ outcome[b].status = "exhausted"
    /\ repairCalls[b] >= 1
    /\ outcome[b].err.id = lastCall.ret
    /\ lastCall.op = "replace"

\* C11: with one declared test, a build() whose synthesized source fails it
\* resolves after exactly j Generator.repair calls when the j-th repaired
\* source is the first to pass (1 <= j <= retries); so it resolves on a
\* passing artifact, and it fails only once `retries` (3) repaired sources
\* have been produced and found failing.
C11_ResolvesAtFirstPassingRepair ==
  \A b \in Builders :
    outcome[b].ntests = 1 =>
      /\ (outcome[b].status = "resolved" /\ outcome[b].miss)
           => /\ repairCalls[b] = evalCount[b] - 1
              /\ repairCalls[b] <= DefaultRetries
              /\ Passes(bodies[lastId[descr[b]]], testCases[b][1])
      /\ outcome[b].status = "exhausted"
           => /\ repairCalls[b] = DefaultRetries
              /\ evalCount[b] = DefaultRetries + 1

\* C12: fetchCode(d) on a store whose index has no entry for d throws the
\* not-found error and leaves index and bodies as they were; so it does on
\* the fresh store and right after clearCache.
C12_FetchMissingThrows ==
  [][\A d \in Descs :
       (lastCall' # lastCall /\ lastCall'.op = "fetchCode"
          /\ lastCall'.description = d /\ lookupIn(index, d) = NullId)
         => /\ lastCall'.error = "NotFound"
            /\ index' = index
            /\ bodies' = bodies]_vars

\* fetchCode threw not-found right after clearCache, for a description that
\* had been created before
C12_Witness ==
  /\ lastCall.op = "fetchCode"
  /\ lastCall.error = "NotFound"
  /\ \E i \in DOMAIN created : created[i] = lastCall.description
  /\ index = <<>>
  /\ bodies = <<>>

\* What build() does when an awaited call outside the test loop rejects:
\* Generator.synthesize, writeFunction, or the final loadFunction.
PropagatesOutsideTestLoop(b) ==
  /\ (pc[b] = "generate" /\ pc'[b] \notin {"generate", "write"})
       => /\ outcome'[b].status = "rejected"
          /\ outcome'[b].err.kind = "GeneratorError"
  /\ (pc[b] = "write" /\ pc'[b] \notin {"write", "test", "load"})
       => /\ outcome'[b].status = "rejected"
          /\ outcome'[b].err.kind = "WriteError"
          /\ lastCall'.error = "WriteError"
  /\ (pc[b] = "load" /\ pc'[b] # "load" /\ ~loadFunctionResolves(createdFunctionId[b]))
       => /\ outcome'[b].status = "rejected"
          /\ outcome'[b].err = [kind |-> "LoadError", test |-> 0, id |-> createdFunctionId[b]]

\* C13: outside the test loop every storage or generation failure makes
\* build() reject with that error: the index read of the cache check,
\* Generator.synthesize, writeFunction and the final loadFunction; a build()
\* whose index read fails does not go on as a cache miss.
C13_EveryFailurePropagates ==
  [][\A b \in Builders :
       /\ (pc[b] = "idle" /\ pc'[b] # "idle" /\ readFileRejects)
            => outcome'[b].status = "rejected"
       /\ PropagatesOutsideTestLoop(b)]_vars

\* C13 amended: a rejected Generator.synthesize, writeFunction or final
\* loadFunction makes build() reject with that error, while a rejected read
\* of the cache file is caught by loadCache and build() goes on as for a
\* cache miss.
C13_FailuresPropagateButIndexRead ==
  [][\A b \in Builders :
       /\ (pc[b] = "idle" /\ pc'[b] # "idle" /\ readFileRejects)
            => /\ pc'[b] = "generate"
               /\ outcome'[b].status = "none"
       /\ PropagatesOutsideTestLoop(b)]_vars

\* a build() on the missing cache file went on as a miss, synthesized a text
\* that does not compile, stored it, and rejected from the final load
C13_Witness ==
  \E b \in Builders :
    /\ outcome[b].status = "rejected"
    /\ outcome[b].err.kind = "LoadError"
    /\ outcome[b].ntests = 0
    /\ synthCalls[b] = 1
    /\ Len(index) = 1
    /\ ~loadFunctionResolves(index[1].id)

C15_LateTestEvaluated ==
  \A b \in Builders :
    (outcome[b].status = "resolved" /\ outcome[b].late)
      => evalCount[b] >= outcome[b].ntests

\* C15 amended: the next build() finds the description in the index and
\* resolves with the indexed artifact without evaluating any test case,
\* the newly declared one included; the declared test cases are evaluated
\* by a build() that misses the index.
C15_LateTestSkippedOnHit ==
  \A b \in Builders :
    /\ (outcome[b].status = "resolved" /\ outcome[b].late)
         => /\ ~outcome[b].miss
            /\ evalCount[b] = 0
            /\ repairCalls[b] = 0
    /\ (outcome[b].status = "resolved" /\ outcome[b].miss)
         => evalCount[b] >= outcome[b].ntests

\* a build() resolved after a test case was declared since the one before,
\* with an artifact that fails it
C15_Witness ==
  \E b \in Builders :
    /\ outcome[b].status = "resolved"
    /\ outcome[b].late
    /\ outcome[b].ntests = 1
    /\ ~Passes(outcome[b].callable, testCases[b][1])

\* C16: whenever no store operation is in flight, that is after any
\* sequence of completed writeFunction, replaceFunction and clearCache
\* calls, every id the index references has its body file.
C16_IndexedIdsHaveBodies ==
  \A i \in 1..Len(index) : HasBody(index[i].id)

\* after a clearCache, a replaceFunction completed on an index that then
\* holds two entries
C16_Witness ==
  /\ lastCall.op = "replace"
  /\ Len(index) = 2
  /\ DOMAIN bodies # 1..Len(created)
  /\ \A i \in 1..Len(index) : HasBody(index[i].id)

\* C17: writeFunction and replaceFunction alike persist the body of the new
\* id before they write the index entry that references it: every write of
\* the cache file references only ids whose body file is already there, so
\* no state, between the two writes or after a rejected second write
\* included, has an index entry without its body.
C17_BodyBeforeIndexEntry ==
  /\ [][index' # index
          => \A i \in 1..Len(index') : index'[i].id \in DOMAIN bodies]_vars
  /\ [](\A i \in 1..Len(index) : index[i].id \in DOMAIN bodies)

\* C18: after writeFunction(text, d) or replaceFunction(oldId, text, d) has
\* returned id X, on any store reachable through writeFunction,
\* replaceFunction and clearCache, checkCache(d) returns X.
C18_LookupReturnsLatestId ==
  lastCall.op \in {"write", "replace"}
    => checkCache(lastCall.description) = lastCall.ret

\* C18 amended: checkCache(d) returns X provided the index held, before the
\* call, no entry for d other than the entry of oldId (none at all for
\* writeFunction): checkCache takes the first entry for d and both calls
\* push theirs at the end.
C18_LookupReturnsLatestIdIfSole ==
  [][\A d \in Descs :
       (/\ lastCall' # lastCall
        /\ lastCall'.op \in {"write", "replace"}
        /\ lastCall'.description = d
        /\ \A i \in 1..Len(index) :
             index[i].description = d => index[i].id = lastCall'.oldId)
         => /\ lookupIn(index', d) = lastCall'.ret
            /\ lastCall'.ret \in DOMAIN bodies']_vars

\* replaceFunction returned the id checkCache now finds, behind an entry of
\* the other description
C18_Witness ==
  /\ lastCall.op = "replace"
  /\ checkCache(lastCall.description) = lastCall.ret
  /\ CountFor(index, lastCall.description) = 1
  /\ Len(index) = 2
  /\ index[2].id = lastCall.ret

\* The entries of the index for the descriptions other than description.
OthersIn(cache, description) ==
  SelectSeq(cache, LAMBDA item : item.description # description)

\* C19: writeFunction(text, d), run without interleaving, leaves every index
\* entry and every body of the other descriptions as they were; it adds one
\* index entry and one body, those of the id it returns, and nothing else.
C19_CreateFrame ==
  [][(lastCall' # lastCall /\ lastCall'.op = "write")
       => LET d == lastCall'.description
              X == lastCall'.ret
          IN /\ OthersIn(index', d) = OthersIn(index, d)
             /\ index' = Append(index, [id |-> X, description |-> d])
             /\ X \notin DOMAIN bodies
             /\ DOMAIN bodies' = DOMAIN bodies \cup {X}
             /\ \A i \in DOMAIN bodies : bodies'[i] = bodies[i]]_vars

\* writeFunction returned on a store that holds an artifact of the other
\* description and an earlier one of its own
C19_Witness ==
  /\ lastCall.op = "write"
  /\ Len(index) = 3
  /\ index[3] = [id |-> lastCall.ret, description |-> lastCall.description]
  /\ index[1].description # lastCall.description
  /\ index[2].description = lastCall.description
  /\ bodies[index[1].id] # bodies[lastCall.ret]

\* C20: after clearCache, checkCache(d) finds nothing and fetchCode(d)
\* throws for every description, no body file remains, and the next
\* build(), also for a description built before, goes through
\* generateFunction again.
C20_ResetForgetsEverything ==
  lastCall.op = "clear"
    => /\ \A d \in Descs : checkCache(d) = NullId /\ fetchCodeFails(d)
       /\ DOMAIN bodies = {}
       /\ \A b \in Builders :
            /\ pc[b] \in {"idle", "generate", "write"}
            /\ pc[b] = "write" => synthCalls[b] = 1

\* after clearCache, a build() for a description built before has called
\* the Generator and is about to store the text
C20_Witness ==
  \E b \in Builders :
    /\ lastCall.op = "clear"
    /\ pc[b] = "write"
    /\ synthCalls[b] = 1
    /\ \E i \in DOMAIN created : created[i] = descr[b]

\* The first k for which invocation k of fn succeeds, 0 if none up to n.
FirstOk(fn, n) ==
  IF \E k \in 1..n : fn[k] = "ok"
  THEN CHOOSE k \in 1..n : fn[k] = "ok" /\ \A j \in 1..(k - 1) : fn[j] = "fail"
  ELSE 0

\* C24: retry(fn, {retries: n}) with n >= 1: when the k-th invocation of fn
\* is the first to succeed and k <= n, retry resolves with the result of
\* that invocation and fn has been invoked exactly k times.
C24_ResolvesAtFirstSuccess ==
  (app.op = "retry" /\ app.opts.retries >= 1 /\ FirstOk(app.fn, app.opts.retries) # 0)
    => /\ app.result.status = "resolved"
       /\ app.result.from = FirstOk(app.fn, app.opts.retries)
       /\ app.result.invoked = FirstOk(app.fn, app.opts.retries)

\* retry with retries given as 3 resolved with the result of the third
\* invocation, the first two having failed
C24_Witness ==
  /\ app.op = "retry"
  /\ app.opts = [given |-> TRUE, retries |-> 3]
  /\ app.fn[1] = "fail" /\ app.fn[2] = "fail" /\ app.fn[3] = "ok"
  /\ app.result = [status |-> "resolved", from |-> 3, invoked |-> 3, before |-> <<1, 2>>]

\* C25: retry(fn, {retries: n}) with n >= 1: when every invocation of fn
\* fails, fn is invoked exactly n times (3 times when retries is left out)
\* and retry rejects with the error of the last invocation.
C25_RejectsAfterNInvocations ==
  (app.op = "retry" /\ app.opts.retries >= 1 /\ FirstOk(app.fn, app.opts.retries) = 0)
    => /\ app.result.status = "rejected"
       /\ app.result.invoked = app.opts.retries
       /\ app.result.from = app.opts.retries
       /\ ~app.opts.given => app.result.invoked = 3

\* retry without a retries option rejected with the error of the third
\* invocation of an fn that would have succeeded at the fourth
C25_Witness ==
  /\ app.op = "retry"
  /\ ~app.opts.given
  /\ app.fn[4] = "ok"
  /\ app.result.status = "rejected"
  /\ app.result.invoked = 3
  /\ app.result.from = 3

\* The repaired functions of app.fixed, among the first n, that return
\* app.expected.
FixedOk(n) == {j \in 1..n : app.fixed[j] = app.expected}

\* C26: MetaprogFunction.test(args, expected) makes 0 repair calls when the
\* built function returns a value strictly equal to expected, j calls when
\* the j-th repaired function (1 <= j <= 3) is the first to return expected,
\* and exactly 3 when none does, in which case test() rejects.
C26_RepairCallsOfTest ==
  app.op = "test" =>
    /\ app.built = app.expected
         => app.result = [status |-> "resolved", repairs |-> 0]
    /\ app.built # app.expected =>
         /\ \A j \in 1..3 :
              (j \in FixedOk(3) /\ \A i \in 1..(j - 1) : i \notin FixedOk(3))
                => app.result = [status |-> "resolved", repairs |-> j]
         /\ FixedOk(3) = {}
              => app.result = [status |-> "rejected", repairs |-> 3]

\* the built function returned the string for an expected number of the same
\* digits, the first two repaired functions threw or returned another value,
\* the third returned expected: test() resolved after three repair calls
C26_Witness ==
  /\ app.op = "test"
  /\ app.expected = [type |-> "number", val |-> 1]
  /\ app.built = [type |-> "string", val |-> 1]
  /\ app.fixed[1] = Thrown
  /\ app.fixed[2] = [type |-> "number", val |-> 2]
  /\ app.fixed[3] = app.expected
  /\ app.result = [status |-> "resolved", repairs |-> 3]

\* The positions of fixFunction, from fetchCode to replaceFunction.
Repairing(b) == pc[b] \in {"fixFetch", "fixInvoke", "fixLoadCache", "fixReplace"}

\* C27: declared tests are evaluated in declaration order: test() appends
\* to the list and leaves the earlier callbacks where they are; the test
\* loop starts at the first callback, every evaluation is of the callback
\* at the loop's position, and the position moves on by one, and only in
\* the step that evaluates the callback there and finds it passing.
C27_DeclarationOrder ==
  [][\A b \in Builders :
       /\ testCases'[b] # testCases[b]
            => /\ Len(testCases'[b]) = Len(testCases[b]) + 1
               /\ SubSeq(testCases'[b], 1, Len(testCases[b])) = testCases[b]
       /\ evalCount'[b] = evalCount[b] + 1
            => pc[b] = "test" /\ ti[b] \in 1..Len(testCases[b])
       /\ (ti'[b] # ti[b] /\ pc'[b] # "idle")
            => \/ ti[b] = 0 /\ ti'[b] = 1 /\ evalCount[b] = 0
               \/ /\ ti'[b] = ti[b] + 1
                  /\ pc[b] = "test"
                  /\ evalCount'[b] = evalCount[b] + 1
                  /\ TestError(functionId[b], testCases[b][ti[b]]) = NoErr]_vars

\* the second of two different callbacks, declared second, is about to be
\* evaluated for the first time after the first failed, was repaired and
\* then passed
C27_Witness ==
  \E b \in Builders :
    /\ pc[b] = "test"
    /\ testCases[b] = <<2, 1>>
    /\ ti[b] = 2
    /\ evalCount[b] = 2
    /\ repairCalls[b] = 1

\* C28: after a repair triggered by test Ti only Ti is evaluated again:
\* fixFunction leaves the loop's position where it was and runTest resumes
\* there; within a build() the position never moves back, so T1..Ti-1 are
\* not evaluated again.
C28_OnlyFailingTestRerun ==
  [][\A b \in Builders :
       /\ (Repairing(b) /\ pc'[b] # "idle") => ti'[b] = ti[b]
       /\ (pc[b] = "fixReplace" /\ pc'[b] # pc[b]) => pc'[b] = "test"
       /\ (pc[b] # "idle" /\ pc'[b] # "idle") => ti'[b] >= ti[b]]_vars

\* the second callback failed on an artifact the first had passed on, the
\* repair has replaced the artifact, and evaluation resumes at the second
C28_Witness ==
  \E b \in Builders :
    /\ pc[b] = "test"
    /\ ti[b] = 2
    /\ retries[b] = DefaultRetries - 1
    /\ repairCalls[b] = 1
    /\ evalCount[b] = 2
    /\ functionId[b] # createdFunctionId[b]

\* C29: every repair request carries as prior source the body of the
\* artifact the index names for the description at that moment, which is
\* the latest one written for it (by synthesize, or by the repair before)
\* and the one the failing test ran on; the replaceFunction that follows is
\* given that same id as the entry to supersede.
C29_RepairSeesCurrentBody ==
  \A b \in Builders :
    /\ pc[b] \in {"fixInvoke", "fixLoadCache", "fixReplace"}
         => /\ checkCache(descr[b]) = lastId[descr[b]]
            /\ checkCache(descr[b]) = functionId[b]
            /\ existingFunctionCode[b] = bodies[checkCache(descr[b])]
    /\ pc[b] = "fixReplace" => functionCache[b] = checkCache(descr[b])

\* a second repair is about to replace the artifact the first repair wrote,
\* with that artifact's body as its prior source and not the body
\* synthesize returned
C29_Witness ==
  \E b \in Builders :
    /\ pc[b] = "fixReplace"
    /\ repairCalls[b] = 2
    /\ functionCache[b] # createdFunctionId[b]
    /\ existingFunctionCode[b] = bodies[functionCache[b]]
    /\ existingFunctionCode[b] # bodies[createdFunctionId[b]]

\* C30: build() terminates: when every Generator, store and loader call
\* returns, a build() with a finite list of test cases eventually resolves
\* or fails; the repairs it makes are bounded by the retry budget of each
\* test case, so the repair loop does not go on for ever.
C30_BuildTerminates ==
  /\ [](\A b \in Builders :
          repairCalls[b] <= (DefaultRetries - 1) * Len(testCases[b]))
  /\ \A b \in Builders : (pc[b] # "idle") ~> (pc[b] = "idle")

\* a build() has ended, failed, after its test case used up the budget in
\* two repairs
C30_Witness ==
  \E b \in Builders :
    /\ pc[b] = "idle"
    /\ outcome[b].status = "exhausted"
    /\ repairCalls[b] = DefaultRetries - 1

\* C22 as stated: once both calls have returned, the lookup of the
\* description returns the id of the call that wrote the index last (the
\* last entry of the list it wrote).
C22_LastIndexWriterIsFound ==
  ((\A c \in Builders : Idle(c)) /\ index # <<>>)
    => checkCache("d1") = index[Len(index)].id

\* C22: the last write to the index wins as a whole file: it stores the
\* list its caller read before, with the caller's entry last, whatever was
\* written in between; the lookup returns the first entry of the
\* description in that list, which is the last writer's id exactly when the
\* list holds no other entry for the description.
C22_LastIndexWriteIsTheFile ==
  /\ [][index' # index =>
          \E c \in Builders :
            /\ pending[c].phase = "cache"
            /\ index' = pending[c].cache
            /\ index'[Len(index')].id = pending[c].id]_vars
  /\ [](index # <<>> =>
          /\ checkCache("d1") = index[FindPos(index, "d1")].id
          /\ (checkCache("d1") = index[Len(index)].id <=> CountFor(index, "d1") = 1))

\* two writeFunction calls ran at once, both returned, and the index holds
\* the entry of the first id alone: the call that drew the second id wrote
\* the index first and its entry was overwritten
C22_Witness ==
  /\ \A c \in Builders : Idle(c)
  /\ Len(created) = 2
  /\ storeWrites["d1"] = 2
  /\ DOMAIN bodies = {1, 2}
  /\ lastCall.op = "write"
  /\ lastCall.ret = 1
  /\ index = <<[id |-> 1, description |-> "d1"]>>

\* C21 as stated: for every description, over all build() calls on the
\* store since it was last cleared, those of two interleaving instances
\* included, Generator.synthesize is invoked at most once.
C21_SynthesizeOncePerDescription == \A d \in Descs : synthTotal[d] <= 1

\* C21: every build() invokes Generator.synthesize at most once, and does
\* so exactly when its own lookup, made when it was called, found no entry
\* for the description; a build() that looks up after an entry is in the
\* index loads it and does not synthesize.  (Builds of two instances that
\* both look up before either has written its entry both synthesize.)
C21_SynthesizeOncePerBuild ==
  /\ [](\A b \in Builders : synthCalls[b] <= 1)
  /\ [][\A b \in Builders :
          /\ (pc[b] = "idle" /\ pc'[b] # "idle")
               => (pc'[b] = "generate" <=> checkCache(descr[b]) = NullId)
          /\ (pc[b] # "generate" /\ pc'[b] = "generate") => pc[b] = "idle"
          /\ synthCalls'[b] > synthCalls[b]
               => /\ pc[b] = "generate"
                  /\ functionId[b] = NullId
                  /\ synthTotal'[descr[b]] = synthTotal[descr[b]] + 1]_vars

\* two instances for one description each synthesized, wrote and resolved
\* with an artifact of their own
C21_Witness ==
  /\ descr[1] = descr[2]
  /\ synthTotal[descr[1]] = 2
  /\ \A b \in Builders : pc[b] = "idle" /\ outcome[b].status = "resolved"
  /\ outcome[1].id # outcome[2].id
  /\ \A b \in Builders : synthCalls[b] = 1

\* C23: within one build() at most one external call is in flight: while a
\* store write call of the instance is pending, build() is suspended at the
\* await of that call, and it takes its next step (a Generator call, a read,
\* a load, another write) only in the step in which the call returns.
C23_OneCallInFlight ==
  /\ [](\A b \in Builders :
          /\ ~Idle(b) <=> pc[b] \in {"writing", "replacing"}
          /\ pc[b] = "writing" => pending[b].op = "write"
          /\ pending[b].description \in {"none", descr[b]})
  /\ [][\A b \in Builders :
          /\ (~Idle(b) /\ pc'[b] # pc[b]) => pending'[b] = NoPending
          /\ (~Idle(b) /\ pending'[b] # NoPending)
               => /\ pending'[b].op = pending[b].op
                  /\ UNCHANGED <<functionCode[b], functionId[b], ti[b], retries[b],
                                 repairCalls[b], evalCount[b], synthCalls[b]>>]_vars

\* the second repair of one instance has its replaceFunction between the
\* index write and the body write while the other instance's writeFunction
\* is pending too
C23_Witness ==
  \E b \in Builders : \E o \in Builders \ {b} :
    /\ pc[b] = "replacing"
    /\ pending[b].op = "replace"
    /\ pending[b].phase = "body"
    /\ repairCalls[b] = 2
    /\ pc[o] = "writing"
    /\ pending[o].phase = "read"

\* C31: for every Generator response text, the text postProcessFunctionCode
\* returns holds no triple-backtick fence, and post-processing that text
\* again returns it unchanged.
C31_NoFenceAndIdempotent ==
  app.op = "postProcess" =>
    /\ ~HasFence(app.result)
    /\ app.again = app.result

\* removing a tagged fence brought the backticks around it together into a
\* new fence, which the second replace removed
C31_Witness ==
  /\ app.op = "postProcess"
  /\ app.text = <<"tick", "tick", "tick", "tick", "tick", "typescript", "tick">>
  /\ replace(app.text, FenceTypescript) = Fence
  /\ app.result = <<>>

\* C32: each test case gets a retry budget of its own: when the test loop
\* moves on to the next test case the budget is the full default, whatever
\* the test cases before used up; within a test case every repair takes
\* one from it; so the repairs of a build() are bounded by the budget times
\* the test cases reached, not by one budget.
C32_BudgetPerTestCase ==
  /\ [][\A b \in Builders :
          /\ (ti'[b] = ti[b] + 1 /\ pc'[b] # "idle") => retries'[b] = DefaultRetries
          /\ (ti'[b] = ti[b] /\ pc[b] # "idle" /\ pc'[b] # "idle")
               => retries'[b] = IF pc[b] = "fixReplace" /\ pc'[b] # pc[b]
                                THEN retries[b] - 1 ELSE retries[b]]_vars
  /\ [](\A b \in Builders :
          (pc[b] # "idle" /\ ti[b] >= 1)
            => repairCalls[b] <= (DefaultRetries - 1) * ti[b])

\* the first test case took two repairs to pass, and the second is in its
\* first repair: three repairs in one build(), the second test case with
\* its budget still at the default until this repair returns
C32_Witness ==
  \E b \in Builders :
    /\ pc[b] = "fixLoadCache"
    /\ ti[b] = 2
    /\ repairCalls[b] = DefaultRetries
    /\ retries[b] = DefaultRetries

\* C33: retry calls beforeRetry exactly once between two consecutive
\* invocations of fn, with the error of the invocation that just failed;
\* not before the first invocation and not after the last failed one: the
\* calls are those for invocations 1 .. invoked - 1, in that order, so when
\* retry rejects there are as many as fn invocations less one.
C33_BeforeRetryBetweenInvocations ==
  app.op = "retry" =>
    /\ app.result.before = [k \in 1..(app.result.invoked - 1) |-> k]
    /\ app.result.status = "rejected"
         => Len(app.result.before) = app.result.invoked - 1

\* retry with retries given as 4 rejected after four failed invocations
\* and three beforeRetry calls, with the first, second and third error
C33_Witness ==
  /\ app.op = "retry"
  /\ app.opts = [given |-> TRUE, retries |-> 4]
  /\ app.result.status = "rejected"
  /\ app.result.invoked = 4
  /\ app.result.before = <<1, 2, 3>>

\* The errors a rejected step of fixFunction ends build() with.
RepairErrors == {"ReadError", "GeneratorError", "WriteError", "NotFound"}

\* C34: when a step of the repair (fetchCode, the Generator call,
\* replaceFunction) fails, build() fails in that step with the error of
\* the failed call, whatever is left of the retry budget: every step taken
\* inside fixFunction either goes on to the next step of the repair or
\* ends build() rejected with a repair error, and no test case is
\* evaluated and no further repair requested in between.
C34_RepairFailureFailsBuild ==
  [][\A b \in Builders :
       (Repairing(b) /\ pc'[b] # pc[b]) =>
         \/ /\ pc[b] = "fixFetch" /\ pc'[b] = "fixInvoke"
         \/ /\ pc[b] = "fixInvoke" /\ pc'[b] = "fixLoadCache"
         \/ /\ pc[b] = "fixLoadCache" /\ pc'[b] = "fixReplace"
         \/ /\ pc[b] = "fixReplace" /\ pc'[b] = "test"
            /\ functionId'[b] = lastId'[descr[b]]
            /\ functionId'[b] # functionId[b]
         \/ /\ pc'[b] = "idle"
            /\ outcome'[b].status = "rejected"
            /\ outcome'[b].err.kind \in RepairErrors
            /\ evalCount'[b] = evalCount[b]]_vars

\* build() ended rejected with the Generator's error from the first repair
\* of its first test case: one evaluation, one repair call, nothing after
C34_Witness ==
  \E b \in Builders :
    /\ pc[b] = "idle"
    /\ outcome[b].status = "rejected"
    /\ outcome[b].err.kind = "GeneratorError"
    /\ evalCount[b] = 1
    /\ repairCalls[b] = 1
    /\ synthCalls[b] = 1

\* build() of b has just failed with its retry budget spent and nothing
\* was called since.
Exhausted(b) == pc[b] = "idle" /\ outcome[b].status = "exhausted"

\* C35 as stated: after a build() that failed on the retry bound, the index
\* names an artifact for the description and the build() that follows
\* resolves with it: the entry is there and its file can be imported.
C35_NextBuildResolves ==
  \A b \in Builders :
    Exhausted(b) =>
      /\ checkCache(descr[b]) # NullId
      /\ loadFunctionResolves(checkCache(descr[b]))

\* C35: after a build() that failed on the retry bound the index names the
\* last repaired artifact of the description and its body is stored; the
\* build() that follows is a cache hit, which calls no Generator and
\* evaluates no test case; it resolves with that artifact when its file can
\* be imported and rejects with the import error when it cannot.
C35_NextBuildIsHit ==
  /\ [](\A b \in Builders :
          Exhausted(b) =>
            /\ checkCache(descr[b]) # NullId
            /\ checkCache(descr[b]) = lastId[descr[b]]
            /\ HasBody(checkCache(descr[b])))
  /\ [][\A b \in Builders :
          /\ (Exhausted(b) /\ pc'[b] # "idle")
               => pc'[b] = "hit" /\ functionId'[b] = lastId[descr[b]]
          /\ (pc[b] = "hit" /\ pc'[b] # "hit")
               => /\ pc'[b] = "idle"
                  /\ UNCHANGED <<index, bodies, genCalls>>
                  /\ evalCount'[b] = 0 /\ synthCalls'[b] = 0 /\ repairCalls'[b] = 0
                  /\ IF loadFunctionResolves(functionId[b])
                     THEN /\ outcome'[b].status = "resolved"
                          /\ outcome'[b].id = functionId[b]
                          /\ ~outcome'[b].miss
                     ELSE /\ outcome'[b].status = "rejected"
                          /\ outcome'[b].err.kind = "LoadError"]_vars

\* the second repair of a build() stored a text that does not compile and
\* the build() failed on the retry bound; the build() after it made no
\* Generator call and no evaluation, and rejected with the import error of
\* the artifact the index names
C35_Witness ==
  \E b \in Builders :
    /\ pc[b] = "idle"
    /\ outcome[b].status = "rejected"
    /\ outcome[b].err = [kind |-> "LoadError", test |-> 0, id |-> lastId[descr[b]]]
    /\ evalCount[b] = 0 /\ synthCalls[b] = 0 /\ repairCalls[b] = 0
    /\ lastCall.op = "replace" /\ lastCall.error = "none"
    /\ storeWrites[descr[b]] = DefaultRetries
    /\ checkCache(descr[b]) = lastId[descr[b]]

\* build() of b has just failed with the error of Generator.synthesize.
SynthesizeFailed(b) ==
  /\ pc[b] = "idle"
  /\ outcome[b].status = "rejected"
  /\ outcome[b].err.kind = "GeneratorError"
  /\ repairCalls[b] = 0

\* C36: when Generator.synthesize fails in a build() on a cache miss, the
\* build() fails with that error in the same step and leaves index and
\* bodies as they were, without an entry for the description; the build()
\* that follows misses again and goes to synthesize again.
C36_SynthesizeFailureLeavesStore ==
  /\ [][\A b \in Builders :
          /\ (pc[b] = "generate" /\ pc'[b] = "idle")
               => /\ SynthesizeFailed(b)'
                  /\ UNCHANGED <<index, bodies>>
          /\ (SynthesizeFailed(b) /\ pc'[b] # "idle")
               => pc'[b] = "generate" /\ synthCalls'[b] = 0]_vars
  /\ [](\A b \in Builders :
          (pc[b] = "generate" \/ SynthesizeFailed(b))
            => checkCache(descr[b]) = NullId)

\* a build() failed with the Generator's error at synthesize; nothing was
\* ever stored
C36_Witness ==
  \E b \in Builders :
    /\ SynthesizeFailed(b)
    /\ synthCalls[b] = 1
    /\ evalCount[b] = 0
    /\ index = <<>> /\ bodies = <<>> /\ created = <<>>

\* C37: two instances build different descriptions on one store, their
\* steps interleaving at the awaits of the store calls: once both build()
\* calls have completed, the index holds an entry for each description;
\* neither writeFunction overwrites or drops the entry of the other.
C37_BothEntriesRemain ==
  (/\ descr[1] # descr[2]
   /\ \A b \in Builders :
        pc[b] = "idle" /\ outcome[b].status = "resolved")
    => \A b \in Builders : checkCache(descr[b]) # NullId

\* replaceFunction of caller c is at its write of the cache file, the index
\* holding an entry for the description.
ReplaceWritesIndex(c) ==
  /\ pending[c].op = "replace"
  /\ pending[c].phase = "cache"
  /\ lookupIn(index, pending[c].description) # NullId

\* The index holds the entry that replaceFunction of caller c removes.
OldEntryIndexed(c) ==
  \E i \in 1..Len(index) :
    index[i] = [id |-> pending[c].oldId, description |-> pending[c].description]

EvaluationFailed(k) ==
  \/ \E i \in 1..Len(app.result.before) : app.result.before[i] = k
  \/ app.result.status = "rejected" /\ app.result.from = k

\* C39: an evaluation in which the callback was applied to the loaded
\* function counts as failed exactly when the callback returned false or
\* threw; any other value it returns (true, undefined, null, 0, 1, the
\* empty string) makes runTest resolve at that evaluation with no repair
\* after it.
C39_FailedOnlyOnFalseOrThrow ==
  app.op = "runTest" =>
    \A k \in 1..app.result.invoked :
      app.attempts[k].loaded =>
        /\ EvaluationFailed(k) <=> app.attempts[k].result \in {False, Thrown}
        /\ app.attempts[k].result \notin {False, Thrown}
             => /\ app.result.status = "resolved"
                /\ app.result.from = k
                /\ Len(app.result.before) = k - 1

\* the callback returned false, was run again after one repair and
\* returned 0: runTest resolved there, with that one repair
C39_Witness ==
  /\ app.op = "runTest"
  /\ app.attempts[1] = [loaded |-> TRUE, result |-> False]
  /\ app.attempts[2] = [loaded |-> TRUE, result |-> [type |-> "number", val |-> 0]]
  /\ app.result.status = "resolved"
  /\ app.result.from = 2
  /\ app.result.before = <<1>>
====
